---------------------------- MODULE Spec2Model ----------------------------
(***************************************************************************)
(* A model of the HoneyBadger JavaScript pipeline: the operator metadata   *)
(* and AST of grammar.rs, the Pratt parser of parser.rs and the code       *)
(* generator of codegen.rs.                                                *)
(*                                                                         *)
(* Text is a sequence of one-character strings, a token stream a sequence  *)
(* of token records, an AST node a record tagged by its variant, an        *)
(* Option<T> a sequence of length 0 (None) or 1 (Some).  A panic of the    *)
(* Rust code is a result record with ok = FALSE.                           *)
(***************************************************************************)
EXTENDS Integers, Sequences, FiniteSets, TLC

VARIABLES
    op_index,   \* metadata walk: index of the OperatorType variant inspected
    row,        \* metadata walk: the answers obtained for that variant
    prev_bp,    \* metadata walk: binding power answered for the previous variant
    source,     \* the source text handed to parse
    program,    \* Option of the result of parse (or a hand-built Program)
    code,       \* per minify flag: Option of the result of generate_code
    reprogram,  \* per minify flag: Option of the result of the second parse
    recode,     \* per minify flag: Option of the result of the second generate_code
    tokens,     \* the token stream a Parser was constructed on
    parser,     \* that Parser's state: position in the stream and allow_asi
    step        \* the Parser method applied last, the state it was applied in, its result

vars == <<op_index, row, prev_bp, source, program, code, reprogram, recode,
          tokens, parser, step>>

opVars == <<op_index, row, prev_bp>>
pipeVars == <<source, program, code, reprogram, recode>>
stepVars == <<tokens, parser, step>>

(***************************************************************************)
(* grammar.rs: OperatorType and its metadata.                              *)
(***************************************************************************)

\* The variants of OperatorType in declared order.
OperatorType ==
    << "FatArrow", "Accessor", "New", "Increment", "Decrement",
       "LogicalNot", "BitwiseNot", "Typeof", "Void", "Delete",
       "Multiplication", "Division", "Remainder", "Exponent",
       "Addition", "Substraction",
       "BitShiftLeft", "BitShiftRight", "UBitShiftRight",
       "Lesser", "LesserEquals", "Greater", "GreaterEquals",
       "Instanceof", "In",
       "StrictEquality", "StrictInequality", "Equality", "Inequality",
       "BitwiseAnd", "BitwiseXor", "BitwiseOr", "LogicalAnd", "LogicalOr",
       "Conditional",
       "Assign", "AddAssign", "SubstractAssign", "ExponentAssign",
       "MultiplyAssign", "DivideAssign", "RemainderAssign",
       "BSLAssign", "BSRAssign", "UBSRAssign",
       "BitAndAssign", "BitXorAssign", "BitOrAssign",
       "Spread" >>

Operators == { OperatorType[i] : i \in DOMAIN OperatorType }

\* A slip in the table: Exponent ranked above the other multiplicative operators.
binding_power_ExponentRaised(op) ==
    CASE op \in {"FatArrow", "Accessor"} -> 18
      [] op = "New" -> 17
      [] op \in {"Increment", "Decrement"} -> 16
      [] op \in {"LogicalNot", "BitwiseNot", "Typeof", "Void", "Delete", "Exponent"} -> 15
      [] op \in {"Multiplication", "Division", "Remainder"} -> 14
      [] op \in {"Addition", "Substraction"} -> 13
      [] op \in {"BitShiftLeft", "BitShiftRight", "UBitShiftRight"} -> 12
      [] op \in {"Lesser", "LesserEquals", "Greater", "GreaterEquals",
                 "Instanceof", "In"} -> 11
      [] op \in {"StrictEquality", "StrictInequality", "Equality", "Inequality"} -> 10
      [] op = "BitwiseAnd" -> 9
      [] op = "BitwiseXor" -> 8
      [] op = "BitwiseOr" -> 7
      [] op = "LogicalAnd" -> 6
      [] op = "LogicalOr" -> 5
      [] op = "Conditional" -> 4
      [] op = "Spread" -> 1
      [] OTHER -> 3

\* OperatorType::binding_power
binding_power(op) ==
    CASE op \in {"FatArrow", "Accessor"} -> 18
      [] op = "New" -> 17
      [] op \in {"Increment", "Decrement"} -> 16
      [] op \in {"LogicalNot", "BitwiseNot", "Typeof", "Void", "Delete"} -> 15
      [] op \in {"Multiplication", "Division", "Remainder", "Exponent"} -> 14
      [] op \in {"Addition", "Substraction"} -> 13
      [] op \in {"BitShiftLeft", "BitShiftRight", "UBitShiftRight"} -> 12
      [] op \in {"Lesser", "LesserEquals", "Greater", "GreaterEquals",
                 "Instanceof", "In"} -> 11
      [] op \in {"StrictEquality", "StrictInequality", "Equality", "Inequality"} -> 10
      [] op = "BitwiseAnd" -> 9
      [] op = "BitwiseXor" -> 8
      [] op = "BitwiseOr" -> 7
      [] op = "LogicalAnd" -> 6
      [] op = "LogicalOr" -> 5
      [] op = "Conditional" -> 4
      [] op \in {"Assign", "AddAssign", "SubstractAssign", "ExponentAssign",
                 "MultiplyAssign", "DivideAssign", "RemainderAssign",
                 "BSLAssign", "BSRAssign", "UBSRAssign",
                 "BitAndAssign", "BitXorAssign", "BitOrAssign"} -> 3
      [] op = "Spread" -> 1

\* A slip in the list: the two sign operators left out of the prefix set.
prefix_NoSigns(op) ==
    op \in {"LogicalNot", "BitwiseNot", "Typeof", "Void", "Delete", "New",
            "Spread", "Increment", "Decrement"}

\* OperatorType::prefix
prefix(op) ==
    op \in {"LogicalNot", "BitwiseNot", "Typeof", "Void", "Delete", "New",
            "Spread", "Increment", "Decrement", "Addition", "Substraction"}

\* A slip in the list: the compound assignments left out of the infix set.
infix_NoCompoundAssign(op) ==
    op \in {"FatArrow", "Accessor", "Multiplication", "Division", "Remainder",
            "Exponent", "StrictEquality", "StrictInequality", "Equality",
            "Inequality", "Lesser", "LesserEquals", "Greater", "GreaterEquals",
            "Instanceof", "In", "BitShiftLeft", "BitShiftRight",
            "UBitShiftRight", "BitwiseAnd", "BitwiseXor", "BitwiseOr",
            "LogicalAnd", "LogicalOr", "Conditional", "Addition",
            "Substraction", "Assign"}

\* OperatorType::infix
infix(op) ==
    op \in {"FatArrow", "Accessor", "Multiplication", "Division", "Remainder",
            "Exponent", "StrictEquality", "StrictInequality", "Equality",
            "Inequality", "Lesser", "LesserEquals", "Greater", "GreaterEquals",
            "Instanceof", "In", "BitShiftLeft", "BitShiftRight",
            "UBitShiftRight", "BitwiseAnd", "BitwiseXor", "BitwiseOr",
            "LogicalAnd", "LogicalOr", "Conditional", "Addition",
            "Substraction", "Assign", "AddAssign", "SubstractAssign",
            "ExponentAssign", "MultiplyAssign", "DivideAssign",
            "RemainderAssign", "BSLAssign", "BSRAssign", "UBSRAssign",
            "BitAndAssign", "BitXorAssign", "BitOrAssign"}

\* OperatorType::assignment
assignment(op) ==
    op \in {"Assign", "AddAssign", "SubstractAssign", "ExponentAssign",
            "MultiplyAssign", "DivideAssign", "RemainderAssign", "BSLAssign",
            "BSRAssign", "UBSRAssign", "BitAndAssign", "BitXorAssign",
            "BitOrAssign"}

(***************************************************************************)
(* grammar.rs: the AST.  A node is a record tagged by its variant:         *)
(*   LiteralValue       [l |-> variant, ...]                               *)
(*   Expression         [e |-> variant, ...]                               *)
(*   ObjectMember       [m |-> variant, ...]                               *)
(*   ClassMember        [c |-> variant, ...]                               *)
(*   Statement          [s |-> variant, ...]                               *)
(*   Parameter          [name |-> text]                                    *)
(*   VariableDeclarator [name |-> text, value |-> Option(Expression)]      *)
(* Vec<T> is a sequence, Box<T> the value itself, an OwnedSlice its text.  *)
(***************************************************************************)

\* A slip: Call ranked with Member.
Expression_binding_power_CallAsMember(x) ==
    CASE x.e \in {"Member", "ArrowFunction", "Call"} -> 18
      [] x.e = "Prefix" -> 15
      [] x.e \in {"Binary", "Postfix"} -> binding_power(x.operator)
      [] x.e = "Conditional" -> 4
      [] OTHER -> 100

\* Expression::binding_power
Expression_binding_power(x) ==
    CASE x.e \in {"Member", "ArrowFunction"} -> 18
      [] x.e = "Call" -> 17
      [] x.e = "Prefix" -> 15
      [] x.e \in {"Binary", "Postfix"} -> binding_power(x.operator)
      [] x.e = "Conditional" -> 4
      [] OTHER -> 100

(***************************************************************************)
(* codegen.rs: the Generator.  g = [minify, code, dent, ok]; ok = FALSE    *)
(* after a panic, and every later write is then without effect.            *)
(***************************************************************************)

\* dent is a u16
DentModulus == 65536

\* Generator::new
Generator_new(minify) == [minify |-> minify, code |-> "", dent |-> 0, ok |-> TRUE]

\* Generator::write_bytes (and extend_from_slice)
write_bytes(g, slice) == IF g.ok THEN [g EXCEPT !.code = @ \o slice] ELSE g

\* Generator::write_byte
write_byte(g, ch) == IF g.ok THEN [g EXCEPT !.code = @ \o ch] ELSE g

\* A slip: the two forms swapped.
write_min_Swapped(g, slice, minslice) ==
    IF g.minify THEN write_bytes(g, slice) ELSE write_bytes(g, minslice)

\* Generator::write_min
write_min(g, slice, minslice) ==
    IF g.minify THEN write_bytes(g, minslice) ELSE write_bytes(g, slice)

RECURSIVE write_indent(_, _)
\* Generator::new_line, the loop `for _ in 0..self.dent`
write_indent(g, n) ==
    IF n = 0 THEN g ELSE write_indent(write_bytes(g, "    "), n - 1)

\* Generator::new_line
new_line(g) ==
    IF ~g.minify THEN write_indent(write_byte(g, "\n"), g.dent) ELSE g

\* A slip: the level raised by two.
indent_Twice(g) == IF g.ok THEN [g EXCEPT !.dent = (@ + 2) % DentModulus] ELSE g

\* Generator::indent
indent(g) == IF g.ok THEN [g EXCEPT !.dent = (@ + 1) % DentModulus] ELSE g

\* Generator::dedent
dedent(g) == IF g.ok THEN [g EXCEPT !.dent = (@ - 1) % DentModulus] ELSE g

\* Generator::consume
Generator_consume(g) == [ok |-> g.ok, code |-> g.code]

\* the decimal digit of d
Digit(d) == SubSeq("0123456789", d + 1, d + 1)

RECURSIVE u64_to_code_digits(_)
u64_to_code_digits(n) ==
    IF n < 10 THEN Digit(n) ELSE u64_to_code_digits(n \div 10) \o Digit(n % 10)

\* impl Code for u64 (itoa::write)
u64_to_code(n, g) == write_bytes(g, u64_to_code_digits(n))

\* impl Code for OwnedSlice
OwnedSlice_to_code(slice, g) == write_bytes(g, slice)

\* impl Code for OperatorType: the bytes of each operator
OperatorType_bytes(op) ==
    CASE op = "FatArrow" -> "=>"
      [] op = "Accessor" -> "."
      [] op = "New" -> "new"
      [] op = "Increment" -> "++"
      [] op = "Decrement" -> "--"
      [] op = "LogicalNot" -> "!"
      [] op = "BitwiseNot" -> "~"
      [] op = "Typeof" -> "typeof"
      [] op = "Void" -> "void"
      [] op = "Delete" -> "delete"
      [] op = "Multiplication" -> "*"
      [] op = "Division" -> "/"
      [] op = "Remainder" -> "%"
      [] op = "Exponent" -> "**"
      [] op = "Addition" -> "+"
      [] op = "Substraction" -> "-"
      [] op = "BitShiftLeft" -> "<<"
      [] op = "BitShiftRight" -> ">>"
      [] op = "UBitShiftRight" -> ">>>"
      [] op = "Lesser" -> "<"
      [] op = "LesserEquals" -> "<="
      [] op = "Greater" -> ">"
      [] op = "GreaterEquals" -> ">="
      [] op = "Instanceof" -> "instanceof"
      [] op = "In" -> "in"
      [] op = "StrictEquality" -> "==="
      [] op = "StrictInequality" -> "!=="
      [] op = "Equality" -> "=="
      [] op = "Inequality" -> "!="
      [] op = "BitwiseAnd" -> "&"
      [] op = "BitwiseXor" -> "^"
      [] op = "BitwiseOr" -> "|"
      [] op = "LogicalAnd" -> "&&"
      [] op = "LogicalOr" -> "||"
      [] op = "Conditional" -> "?"
      [] op = "Assign" -> "="
      [] op = "AddAssign" -> "+="
      [] op = "SubstractAssign" -> "-="
      [] op = "ExponentAssign" -> "**="
      [] op = "MultiplyAssign" -> "*="
      [] op = "DivideAssign" -> "/="
      [] op = "RemainderAssign" -> "%="
      [] op = "BSLAssign" -> "<<="
      [] op = "BSRAssign" -> ">>="
      [] op = "UBSRAssign" -> ">>>="
      [] op = "BitAndAssign" -> "&="
      [] op = "BitXorAssign" -> "^="
      [] op = "BitOrAssign" -> "|="
      [] op = "Spread" -> "..."

\* impl Code for OperatorType
OperatorType_to_code(op, g) == write_bytes(g, OperatorType_bytes(op))

\* A slip: the minified form of true written for false as well.
LiteralValue_to_code_FalseAsTrue(v, g) ==
    CASE v.l = "LiteralUndefined" -> write_min(g, "undefined", "void 0")
      [] v.l = "LiteralNull" -> write_bytes(g, "null")
      [] v.l = "LiteralTrue" -> write_min(g, "true", "!0")
      [] v.l = "LiteralFalse" -> write_min(g, "false", "!0")
      [] v.l = "LiteralInteger" -> u64_to_code(v.num, g)
      [] v.l = "LiteralFloat" -> OwnedSlice_to_code(v.num, g)
      [] v.l = "LiteralString" -> OwnedSlice_to_code(v.string, g)

\* impl Code for LiteralValue
LiteralValue_to_code(v, g) ==
    CASE v.l = "LiteralUndefined" -> write_min(g, "undefined", "void 0")
      [] v.l = "LiteralNull" -> write_bytes(g, "null")
      [] v.l = "LiteralTrue" -> write_min(g, "true", "!0")
      [] v.l = "LiteralFalse" -> write_min(g, "false", "!1")
      [] v.l = "LiteralInteger" -> u64_to_code(v.num, g)
      [] v.l = "LiteralFloat" -> OwnedSlice_to_code(v.num, g)
      [] v.l = "LiteralString" -> OwnedSlice_to_code(v.string, g)

\* impl Code for Parameter
Parameter_to_code(p, g) == write_bytes(g, p.name)

\* impl Code for VariableDeclarationKind
VariableDeclarationKind_to_code(kind, g) ==
    write_bytes(g, CASE kind = "Var" -> "var"
                     [] kind = "Let" -> "let"
                     [] kind = "Const" -> "const")

RECURSIVE write_list_Parameter_from(_, _, _)
write_list_Parameter_from(g, items, i) ==
    IF i > Len(items) THEN g
    ELSE write_list_Parameter_from(
             Parameter_to_code(items[i], IF i = 1 THEN g ELSE write_min(g, ", ", ",")),
             items, i + 1)

\* Generator::write_list::<Parameter>
write_list_Parameter(g, items) == write_list_Parameter_from(g, items, 1)

RECURSIVE Expression_to_code(_, _)
RECURSIVE Statement_to_code(_, _)
RECURSIVE ObjectMember_to_code(_, _)
RECURSIVE ClassMember_to_code(_, _)
RECURSIVE VariableDeclarator_to_code(_, _)
RECURSIVE write_list_Expression_from(_, _, _)
RECURSIVE write_list_VariableDeclarator_from(_, _, _)
RECURSIVE write_block_Statement_from(_, _, _)
RECURSIVE write_block_ClassMember_from(_, _, _)
RECURSIVE write_members_from(_, _, _)
RECURSIVE write_transparent_from(_, _, _)

write_list_Expression_from(g, items, i) ==
    IF i > Len(items) THEN g
    ELSE write_list_Expression_from(
             Expression_to_code(items[i], IF i = 1 THEN g ELSE write_min(g, ", ", ",")),
             items, i + 1)

\* Generator::write_list::<Expression>
write_list_Expression(g, items) == write_list_Expression_from(g, items, 1)

write_list_VariableDeclarator_from(g, items, i) ==
    IF i > Len(items) THEN g
    ELSE write_list_VariableDeclarator_from(
             VariableDeclarator_to_code(items[i],
                                        IF i = 1 THEN g ELSE write_min(g, ", ", ",")),
             items, i + 1)

\* Generator::write_list::<VariableDeclarator>
write_list_VariableDeclarator(g, items) == write_list_VariableDeclarator_from(g, items, 1)

write_block_Statement_from(g, items, i) ==
    IF i > Len(items) THEN g
    ELSE write_block_Statement_from(Statement_to_code(items[i], new_line(g)), items, i + 1)

\* Generator::write_block::<Statement>
write_block_Statement(g, items) ==
    new_line(dedent(write_block_Statement_from(indent(g), items, 1)))

write_block_ClassMember_from(g, items, i) ==
    IF i > Len(items) THEN g
    ELSE write_block_ClassMember_from(ClassMember_to_code(items[i], new_line(g)),
                                      items, i + 1)

\* Generator::write_block::<ClassMember>
write_block_ClassMember(g, items) ==
    new_line(dedent(write_block_ClassMember_from(indent(g), items, 1)))

\* impl Code for Option<Expression>
Option_Expression_to_code(o, g) ==
    IF o = <<>> THEN g ELSE Expression_to_code(o[1], g)

\* Generator::write_declaration_or_expression
write_declaration_or_expression(g, statement) ==
    CASE statement.s = "VariableDeclaration" ->
             write_list_VariableDeclarator(
                 write_byte(VariableDeclarationKind_to_code(statement.kind, g), " "),
                 statement.declarators)
      [] statement.s = "Expression" -> Expression_to_code(statement.value, g)
      [] OTHER -> [g EXCEPT !.ok = FALSE]

\* Expression::Object: the two loops over the members
write_members_from(g, members, i) ==
    IF i > Len(members) THEN g
    ELSE write_members_from(
             ObjectMember_to_code(members[i],
                                  new_line(IF i = 1 THEN g ELSE write_byte(g, ","))),
             members, i + 1)

\* A slip: the left operand parenthesized also at equal binding power.
Binary_left_to_code_AtEqual(x, g) ==
    IF Expression_binding_power(x.left) <= Expression_binding_power(x)
    THEN write_byte(Expression_to_code(x.left, write_byte(g, "(")), ")")
    ELSE Expression_to_code(x.left, g)

\* Expression::Binary: the left operand
Binary_left_to_code(x, g) ==
    IF Expression_binding_power(x.left) < Expression_binding_power(x)
    THEN write_byte(Expression_to_code(x.left, write_byte(g, "(")), ")")
    ELSE Expression_to_code(x.left, g)

\* impl Code for ObjectMember
ObjectMember_to_code(x, g) ==
    CASE x.m = "Shorthand" -> OwnedSlice_to_code(x.key, g)
      [] x.m = "Literal" ->
             Expression_to_code(x.value, write_min(OwnedSlice_to_code(x.key, g), ": ", ":"))
      [] x.m = "Computed" ->
             Expression_to_code(x.value,
                 write_min(Expression_to_code(x.key, write_byte(g, "[")), "]: ", "]:"))
      [] x.m = "Method" ->
             write_byte(
                 write_block_Statement(
                     write_min(
                         write_list_Parameter(
                             write_byte(OwnedSlice_to_code(x.name, g), "("), x.params),
                         ") {", "){"),
                     x.body),
                 "}")
      [] x.m = "ComputedMethod" ->
             write_byte(
                 write_block_Statement(
                     write_min(
                         write_list_Parameter(
                             write_bytes(Expression_to_code(x.name, write_byte(g, "[")),
                                         "]("),
                             x.params),
                         ") {", "){"),
                     x.body),
                 "}")

\* impl Code for Expression
Expression_to_code(x, g) ==
    CASE x.e = "This" -> write_bytes(g, "this")
      [] x.e = "Identifier" -> OwnedSlice_to_code(x.name, g)
      [] x.e = "Literal" -> LiteralValue_to_code(x.value, g)
      [] x.e = "Array" ->
             write_byte(write_list_Expression(write_byte(g, "["), x.items), "]")
      [] x.e = "Sequence" ->
             write_byte(write_list_Expression(write_byte(g, "("), x.items), ")")
      [] x.e = "Object" ->
             write_byte(
                 new_line(dedent(write_members_from(indent(write_byte(g, "{")),
                                                    x.members, 1))),
                 "}")
      [] x.e = "Member" ->
             OwnedSlice_to_code(x.property,
                                write_byte(Expression_to_code(x.object, g), "."))
      [] x.e = "ComputedMember" ->
             write_byte(
                 Expression_to_code(x.property,
                                    write_byte(Expression_to_code(x.object, g), "[")),
                 "]")
      [] x.e = "Call" ->
             write_byte(
                 write_list_Expression(write_byte(Expression_to_code(x.callee, g), "("),
                                       x.arguments),
                 ")")
      [] x.e = "Binary" ->
             Expression_to_code(x.right,
                 write_min(
                     OperatorType_to_code(x.operator,
                                          write_min(Binary_left_to_code(x, g), " ", "")),
                     " ", ""))
      [] x.e = "Prefix" ->
             Expression_to_code(x.operand, OperatorType_to_code(x.operator, g))
      [] x.e = "Postfix" ->
             OperatorType_to_code(x.operator, Expression_to_code(x.operand, g))
      [] x.e = "Conditional" ->
             Expression_to_code(x.alternate,
                 write_min(
                     Expression_to_code(x.consequent,
                         write_min(Expression_to_code(x.test, g), " ? ", "?")),
                     " : ", ":"))
      [] x.e = "ArrowFunction" ->
             LET head == IF Len(x.params) = 1
                         THEN Parameter_to_code(x.params[1], g)
                         ELSE write_byte(write_list_Parameter(write_byte(g, "("),
                                                              x.params), ")")
                 arrow == write_min(head, " => ", "=>")
             IN  IF x.body.s = "Expression"
                 THEN Expression_to_code(x.body.value, arrow)
                 ELSE Statement_to_code(x.body, arrow)
      [] x.e = "Function" ->
             LET named == IF x.name # <<>>
                          THEN OwnedSlice_to_code(x.name[1],
                                   write_byte(write_bytes(g, "function"), " "))
                          ELSE write_min(write_bytes(g, "function"), " ", "")
             IN  write_byte(
                     write_block_Statement(
                         write_min(write_list_Parameter(write_byte(named, "("), x.params),
                                   ") {", "){"),
                         x.body),
                     "}")

\* A slip: the pretty form of the initializer written in both modes.
VariableDeclarator_to_code_AlwaysSpaced(d, g) ==
    LET named == OwnedSlice_to_code(d.name, g)
    IN  IF d.value # <<>>
        THEN Expression_to_code(d.value[1], write_bytes(named, " = "))
        ELSE named

\* impl Code for VariableDeclarator
VariableDeclarator_to_code(d, g) ==
    LET named == OwnedSlice_to_code(d.name, g)
    IN  IF d.value # <<>>
        THEN Expression_to_code(d.value[1], write_min(named, " = ", "="))
        ELSE named

\* impl Code for ClassMember
ClassMember_to_code(x, g) ==
    CASE x.c = "Constructor" ->
             write_byte(
                 write_block_Statement(
                     write_min(write_list_Parameter(write_bytes(g, "constructor("),
                                                    x.params),
                               ") {", "){"),
                     x.body),
                 "}")
      [] x.c = "Method" ->
             write_byte(
                 write_block_Statement(
                     write_min(
                         write_list_Parameter(
                             write_byte(
                                 OwnedSlice_to_code(x.name,
                                     IF x.is_static THEN write_bytes(g, "static ") ELSE g),
                                 "("),
                             x.params),
                         ") {", "){"),
                     x.body),
                 "}")
      [] x.c = "Property" ->
             write_byte(
                 Expression_to_code(x.value,
                     write_min(
                         OwnedSlice_to_code(x.name,
                             IF x.is_static THEN write_bytes(g, "static ") ELSE g),
                         " = ", "=")),
                 ";")

\* Statement::Transparent: the two loops over the body
write_transparent_from(g, body, i) ==
    IF i > Len(body) THEN g
    ELSE write_transparent_from(
             Statement_to_code(body[i], IF i = 1 THEN g ELSE new_line(g)),
             body, i + 1)

\* A slip: the pretty form of the if header written in both modes.
If_header_to_code_AlwaysSpaced(x, g) ==
    write_bytes(Expression_to_code(x.test, write_bytes(g, "if (")), ") ")

\* Statement::If: the header up to the consequent
If_header_to_code(x, g) ==
    write_min(Expression_to_code(x.test, write_min(g, "if (", "if(")), ") ", ")")

\* impl Code for Statement
Statement_to_code(x, g) ==
    CASE x.s = "Labeled" ->
             Statement_to_code(x.body, write_min(OwnedSlice_to_code(x.label, g), ": ", ":"))
      [] x.s = "Block" ->
             write_byte(write_block_Statement(write_byte(g, "{"), x.body), "}")
      [] x.s = "Transparent" -> write_transparent_from(g, x.body, 1)
      [] x.s = "Expression" -> write_byte(Expression_to_code(x.value, g), ";")
      [] x.s = "Return" ->
             LET kw == write_bytes(g, "return")
             IN  write_byte(IF x.value # <<>>
                            THEN Expression_to_code(x.value[1], write_byte(kw, " "))
                            ELSE kw,
                            ";")
      [] x.s = "Break" ->
             LET kw == write_bytes(g, "break")
             IN  write_byte(IF x.label # <<>>
                            THEN OwnedSlice_to_code(x.label[1], write_byte(kw, " "))
                            ELSE kw,
                            ";")
      [] x.s = "VariableDeclaration" ->
             write_byte(
                 write_list_VariableDeclarator(
                     write_byte(VariableDeclarationKind_to_code(x.kind, g), " "),
                     x.declarators),
                 ";")
      [] x.s = "Function" ->
             new_line(
                 write_byte(
                     write_block_Statement(
                         write_min(
                             write_list_Parameter(
                                 write_byte(
                                     OwnedSlice_to_code(x.name,
                                         write_bytes(new_line(g), "function ")),
                                     "("),
                                 x.params),
                             ") {", "){"),
                         x.body),
                     "}"))
      [] x.s = "If" ->
             LET then == Statement_to_code(x.consequent, If_header_to_code(x, g))
             IN  IF x.alternate # <<>>
                 THEN Statement_to_code(x.alternate[1], write_bytes(then, " else "))
                 ELSE then
      [] x.s = "While" ->
             Statement_to_code(x.body,
                 write_min(Expression_to_code(x.test, write_min(g, "while (", "while(")),
                           ") ", ")"))
      [] x.s = "For" ->
             LET open == write_min(g, "for (", "for(")
                 init == IF x.init # <<>>
                         THEN write_declaration_or_expression(open, x.init[1])
                         ELSE open
                 test == Option_Expression_to_code(x.test, write_min(init, "; ", ";"))
                 update == Option_Expression_to_code(x.update, write_min(test, "; ", ";"))
             IN  Statement_to_code(x.body, write_min(update, ") ", ")"))
      [] x.s = "ForIn" ->
             Statement_to_code(x.body,
                 write_min(
                     Expression_to_code(x.right,
                         write_bytes(
                             write_declaration_or_expression(
                                 write_min(g, "for (", "for("), x.left),
                             " in ")),
                     ") ", ")"))
      [] x.s = "ForOf" ->
             Statement_to_code(x.body,
                 write_min(
                     Expression_to_code(x.right,
                         write_bytes(
                             write_declaration_or_expression(
                                 write_min(g, "for (", "for("), x.left),
                             " of ")),
                     ") ", ")"))
      [] x.s = "Class" ->
             LET named == OwnedSlice_to_code(x.name, write_bytes(new_line(g), "class "))
                 ext == IF x.extends # <<>>
                        THEN OwnedSlice_to_code(x.extends[1],
                                                write_bytes(named, " extends "))
                        ELSE named
             IN  new_line(
                     write_byte(write_block_ClassMember(write_min(ext, " {", "{"), x.body),
                                "}"))
      [] x.s = "Throw" ->
             write_byte(Expression_to_code(x.value, write_bytes(g, "throw ")), ";")

RECURSIVE generate_code_from(_, _, _)
\* generate_code: the loop over program.body
generate_code_from(g, body, i) ==
    IF i > Len(body) THEN g
    ELSE generate_code_from(new_line(Statement_to_code(body[i], g)), body, i + 1)

\* generate_code
generate_code(body, minify) ==
    Generator_consume(generate_code_from(Generator_new(minify), body, 1))

(***************************************************************************)
(* The metadata walk: a client visits the variants of OperatorType in      *)
(* declared order and asks each of the four queries of the variant it is   *)
(* at.  An answer not yet asked for is None.                               *)
(***************************************************************************)

NoAnswers == [binding_power |-> <<>>, prefix |-> <<>>, infix |-> <<>>, assignment |-> <<>>]

CurrentOperator == OperatorType[op_index]

PipeIdle ==
    /\ source = ""
    /\ program = <<>>
    /\ code = [m \in BOOLEAN |-> <<>>]
    /\ reprogram = [m \in BOOLEAN |-> <<>>]
    /\ recode = [m \in BOOLEAN |-> <<>>]

\* no Parser is being stepped: an empty stream, the state Parser::new gives, no method
StepIdle ==
    /\ tokens = <<>>
    /\ parser = [pos |-> 1, allow_asi |-> FALSE]
    /\ step = [method |-> "new",
               p |-> [pos |-> 1, allow_asi |-> FALSE],
               r |-> [ok |-> TRUE, p |-> [pos |-> 1, allow_asi |-> FALSE], v |-> <<>>]]

OpsIdle ==
    /\ op_index = 1
    /\ row = NoAnswers
    /\ prev_bp = <<>>

InitOps ==
    /\ OpsIdle
    /\ PipeIdle
    /\ StepIdle

AskBindingPower ==
    /\ row.binding_power = <<>>
    /\ row' = [row EXCEPT !.binding_power = <<binding_power(CurrentOperator)>>]
    /\ UNCHANGED <<op_index, prev_bp, pipeVars, stepVars>>

AskPrefix ==
    /\ row.prefix = <<>>
    /\ row' = [row EXCEPT !.prefix = <<prefix(CurrentOperator)>>]
    /\ UNCHANGED <<op_index, prev_bp, pipeVars, stepVars>>

AskInfix ==
    /\ row.infix = <<>>
    /\ row' = [row EXCEPT !.infix = <<infix(CurrentOperator)>>]
    /\ UNCHANGED <<op_index, prev_bp, pipeVars, stepVars>>

AskAssignment ==
    /\ row.assignment = <<>>
    /\ row' = [row EXCEPT !.assignment = <<assignment(CurrentOperator)>>]
    /\ UNCHANGED <<op_index, prev_bp, pipeVars, stepVars>>

NextVariant ==
    /\ op_index < Len(OperatorType)
    /\ op_index' = op_index + 1
    /\ prev_bp' = row.binding_power
    /\ row' = NoAnswers
    /\ UNCHANGED <<pipeVars, stepVars>>

NextOps ==
    \/ AskBindingPower
    \/ AskPrefix
    \/ AskInfix
    \/ AskAssignment
    \/ NextVariant

SpecOps == InitOps /\ [][NextOps]_vars

(***************************************************************************)
(* lexicon::Token, as parser.rs matches on it.  A token is a record        *)
(* [t |-> kind] with, for Identifier, Literal and Operator, a payload v.   *)
(***************************************************************************)

Tok(kind) == [t |-> kind]
IdentifierTok(name) == [t |-> "Identifier", v |-> name]
LiteralTok(value) == [t |-> "Literal", v |-> value]
OperatorTok(op) == [t |-> "Operator", v |-> op]

\* a match arm `$p`: a token kind, with the operator when the pattern names one
Matches(token, pat) ==
    /\ token.t = pat.t
    /\ "v" \in DOMAIN pat => token.v = pat.v

(***************************************************************************)
(* tokenizer::Tokenizer.  The tokenizer is not among the source files; it  *)
(* is modelled from the token alphabet the specification gives and the     *)
(* spellings codegen.rs writes: words and numbers by longest match,        *)
(* punctuation by longest match, blanks dropped, a LineTermination token   *)
(* per newline.  A byte that starts no token is a lexical error.           *)
(***************************************************************************)

Ch(text, i) == SubSeq(text, i, i)

LetterChars ==
    { Ch("abcdefghijklmnopqrstuvwxyzABCDEFGHIJKLMNOPQRSTUVWXYZ_$", i) : i \in 1..54 }
DigitChars == { Ch("0123456789", i) : i \in 1..10 }
QuoteChars == { "'", "\"" }

RECURSIVE RunEnd(_, _, _)
\* the index after the longest run of characters of `chars` that starts at i
RunEnd(text, i, chars) ==
    IF i <= Len(text) /\ Ch(text, i) \in chars THEN RunEnd(text, i + 1, chars) ELSE i

RECURSIVE DecimalValue(_, _)
\* the number the first n digits of a decimal numeral denote
DecimalValue(digits, n) ==
    IF n = 0 THEN 0
    ELSE 10 * DecimalValue(digits, n - 1)
         + (CHOOSE d \in 0..9 : Ch("0123456789", d + 1) = Ch(digits, n))

\* the token of a word
WordToken(word) ==
    CASE word = "this" -> Tok("This")
      [] word = "function" -> Tok("Function")
      [] word = "class" -> Tok("Class")
      [] word = "extends" -> Tok("Extends")
      [] word = "static" -> Tok("Static")
      [] word = "var" -> Tok("Var")
      [] word = "let" -> Tok("Let")
      [] word = "const" -> Tok("Const")
      [] word = "return" -> Tok("Return")
      [] word = "break" -> Tok("Break")
      [] word = "throw" -> Tok("Throw")
      [] word = "if" -> Tok("If")
      [] word = "else" -> Tok("Else")
      [] word = "while" -> Tok("While")
      [] word = "for" -> Tok("For")
      [] word = "of" -> Tok("Of")
      [] word = "true" -> LiteralTok([l |-> "LiteralTrue"])
      [] word = "false" -> LiteralTok([l |-> "LiteralFalse"])
      [] word = "null" -> LiteralTok([l |-> "LiteralNull"])
      [] word = "undefined" -> LiteralTok([l |-> "LiteralUndefined"])
      [] word \in {"new", "typeof", "void", "delete", "instanceof", "in"} ->
             OperatorTok(CHOOSE op \in Operators : OperatorType_bytes(op) = word)
      [] OTHER -> IdentifierTok(word)

\* the spellings of the punctuation tokens
PunctuationToken(text) ==
    CASE text = "(" -> <<Tok("ParenOn")>>
      [] text = ")" -> <<Tok("ParenOff")>>
      [] text = "[" -> <<Tok("BracketOn")>>
      [] text = "]" -> <<Tok("BracketOff")>>
      [] text = "{" -> <<Tok("BlockOn")>>
      [] text = "}" -> <<Tok("BlockOff")>>
      [] text = ";" -> <<Tok("Semicolon")>>
      [] text = "," -> <<Tok("Comma")>>
      [] text = ":" -> <<Tok("Colon")>>
      [] OTHER ->
             LET ops == { op \in Operators : OperatorType_bytes(op) = text }
             IN  IF ops = {} THEN <<>> ELSE <<OperatorTok(CHOOSE op \in ops : TRUE)>>

\* the length of the longest punctuation token that starts at i (0: none)
PunctuationLength(text, i) ==
    LET fits == { n \in 1..4 : /\ i + n - 1 <= Len(text)
                               /\ PunctuationToken(SubSeq(text, i, i + n - 1)) # <<>> }
    IN  IF fits = {} THEN 0 ELSE CHOOSE n \in fits : \A k \in fits : k <= n

RECURSIVE Tokenizer_from(_, _, _)
Tokenizer_from(text, i, toks) ==
    IF i > Len(text) THEN [ok |-> TRUE, toks |-> toks]
    ELSE LET c == Ch(text, i) IN
    CASE c = " " -> Tokenizer_from(text, i + 1, toks)
      [] c = "\n" -> Tokenizer_from(text, i + 1, Append(toks, Tok("LineTermination")))
      [] c \in LetterChars ->
             LET j == RunEnd(text, i, LetterChars \cup DigitChars)
             IN  Tokenizer_from(text, j, Append(toks, WordToken(SubSeq(text, i, j - 1))))
      [] c \in DigitChars ->
             LET j == RunEnd(text, i, DigitChars)
                 k == IF j < Len(text) /\ Ch(text, j) = "." /\ Ch(text, j + 1) \in DigitChars
                      THEN RunEnd(text, j + 1, DigitChars)
                      ELSE j
                 value == IF k = j
                          THEN [l |-> "LiteralInteger",
                                num |-> DecimalValue(SubSeq(text, i, j - 1), j - i)]
                          ELSE [l |-> "LiteralFloat", num |-> SubSeq(text, i, k - 1)]
             IN  Tokenizer_from(text, k, Append(toks, LiteralTok(value)))
      [] c \in QuoteChars ->
             LET j == RunEnd(text, i + 1, (LetterChars \cup DigitChars \cup {" "}))
             IN  IF j <= Len(text) /\ Ch(text, j) = c
                 THEN Tokenizer_from(text, j + 1,
                          Append(toks, LiteralTok([l |-> "LiteralString",
                                                   string |-> SubSeq(text, i, j)])))
                 ELSE [ok |-> FALSE, msg |-> "Lexical error"]
      [] OTHER ->
             LET n == PunctuationLength(text, i)
             IN  IF n = 0 THEN [ok |-> FALSE, msg |-> "Lexical error"]
                 ELSE Tokenizer_from(text, i + n,
                          Append(toks, PunctuationToken(SubSeq(text, i, i + n - 1))[1]))

\* the token stream of a source text
Tokenizer(text) == Tokenizer_from(text, 1, <<>>)

(***************************************************************************)
(* parser.rs: the Parser.  Its state p = [pos, allow_asi] is the position  *)
(* of the peekable tokenizer in the token stream and the ASI flag.  Every  *)
(* method returns Ok(p, value) or, where the code panics, Panic(msg, p).   *)
(***************************************************************************)

Ok(p, value) == [ok |-> TRUE, p |-> p, v |-> value]
Panic(msg, p) == [ok |-> FALSE, p |-> p, msg |-> msg]

\* With([x \in {e} |-> body]) is body with x naming the value of e: a method's result
\* is named where it is returned and passed on from there
With(f) == f[CHOOSE x \in DOMAIN f : TRUE]

\* Parser::new
Parser_new == [pos |-> 1, allow_asi |-> FALSE]

RECURSIVE handle_line_termination(_, _)
\* Parser::handle_line_termination
handle_line_termination(toks, p) ==
    IF p.pos <= Len(toks) /\ toks[p.pos].t = "LineTermination"
    THEN handle_line_termination(toks, [pos |-> p.pos + 1, allow_asi |-> TRUE])
    ELSE p

\* A slip: allow_asi is not reset when a token is consumed.
consume_KeepAsi(toks, p) ==
    LET q == handle_line_termination(toks, p)
    IN  IF q.pos > Len(toks)
        THEN Panic("Unexpected end of program", q)
        ELSE Ok([pos |-> q.pos + 1, allow_asi |-> q.allow_asi], toks[q.pos])

\* Parser::consume
consume(toks, p) ==
    LET q == handle_line_termination(toks, p)
    IN  IF q.pos > Len(toks)
        THEN Panic("Unexpected end of program", q)
        ELSE Ok([pos |-> q.pos + 1, allow_asi |-> FALSE], toks[q.pos])

\* Parser::lookahead: the state after skipping line terminations, and Option(token)
lookahead(toks, p) ==
    LET q == handle_line_termination(toks, p)
    IN  [p |-> q, v |-> IF q.pos > Len(toks) THEN <<>> ELSE <<toks[q.pos]>>]

\* lookahead() matches Some(&$p)
LookaheadIs(la, pat) == la.v # <<>> /\ Matches(la.v[1], pat)

\* unexpected_token!($parser, $token)
unexpected_token(token, p) == Panic("Unexpected token", p)

\* unexpected_token!($parser): consumes the offending token and panics
unexpected_token_next(toks, p) ==
    With([c \in {consume(toks, p)} |->
        IF c.ok THEN unexpected_token(c.v, c.p) ELSE c])

\* allow!($parser, $p): Ok(p, consumed?)
allow(toks, p, pat) ==
    With([la \in {lookahead(toks, p)} |->
        IF LookaheadIs(la, pat)
        THEN Ok(consume(toks, la.p).p, TRUE)
        ELSE Ok(la.p, FALSE)])

\* expect!($parser, $p => $value): Ok(p, token) or a panic
expect(toks, p, pat) ==
    With([c \in {consume(toks, p)} |->
        IF ~c.ok THEN c
        ELSE IF Matches(c.v, pat) THEN c
        ELSE unexpected_token(c.v, c.p)])

\* A slip: the ASI flag ignored, so that a statement must end in a terminator token.
statement_end_NoAsi(toks, r) ==
    IF ~r.ok THEN r
    ELSE With([la \in {lookahead(toks, r.p)} |->
         LET semicolon == LookaheadIs(la, Tok("Semicolon"))
             is_end == \/ semicolon
                       \/ LookaheadIs(la, Tok("ParenOff"))
                       \/ LookaheadIs(la, Tok("BlockOff"))
                       \/ la.v = <<>>
         IN  With([after \in {IF semicolon THEN consume(toks, la.p).p ELSE la.p} |->
             IF ~is_end
             THEN unexpected_token_next(toks, after)
             ELSE Ok(after, r.v)])])

\* statement!($parser, $eval), after $eval gave r
statement_end(toks, r) ==
    IF ~r.ok THEN r
    ELSE With([la \in {lookahead(toks, r.p)} |->
         LET semicolon == LookaheadIs(la, Tok("Semicolon"))
             is_end == \/ semicolon
                       \/ LookaheadIs(la, Tok("ParenOff"))
                       \/ LookaheadIs(la, Tok("BlockOff"))
                       \/ la.v = <<>>
         IN  With([after \in {IF semicolon THEN consume(toks, la.p).p ELSE la.p} |->
             IF ~is_end /\ ~after.allow_asi
             THEN unexpected_token_next(toks, after)
             ELSE Ok(after, r.v)])])

RECURSIVE expression(_, _, _)
RECURSIVE expression_right(_, _, _, _)
RECURSIVE prefix_expression(_, _, _)
RECURSIVE infix_expression(_, _, _, _)
RECURSIVE sequence_expression(_, _)
RECURSIVE sequence_loop(_, _, _)
RECURSIVE arrow_function_expression(_, _, _)
RECURSIVE function_expression(_, _)
RECURSIVE object_member(_, _)
RECURSIVE list_item(_, _, _)
RECURSIVE list_loop(_, _, _, _, _)
RECURSIVE block_body(_, _)
RECURSIVE block_body_loop(_, _, _)
RECURSIVE block_or_statement(_, _)
RECURSIVE expression_statement(_, _)
RECURSIVE statement(_, _)
RECURSIVE variable_declaration_loop(_, _, _)
RECURSIVE if_statement(_, _)
RECURSIVE class_members_loop(_, _, _)

\* list!($parser, $item, $end): the item of the instantiation
list_item(toks, p, item) ==
    CASE item = "expression" -> expression(toks, p, 0)
      [] item = "object_member" -> object_member(toks, p)
      [] item = "parameter" ->
             With([c \in {expect(toks, p, Tok("Identifier"))} |->
                 IF c.ok THEN Ok(c.p, [name |-> c.v.v]) ELSE c])

\* list!($parser, $item, $end): the loop
list_loop(toks, p, item, end, list) ==
    With([a \in {allow(toks, p, end)} |->
        IF a.v THEN Ok(a.p, list)
        ELSE With([i \in {list_item(toks, a.p, item)} |->
                 IF ~i.ok THEN i
                 ELSE With([pushed \in {Append(list, i.v)} |->
                      With([c \in {consume(toks, i.p)} |->
                          IF ~c.ok THEN c
                          ELSE IF Matches(c.v, Tok("Comma"))
                          THEN With([b \in {allow(toks, c.p, end)} |->
                                   IF b.v THEN Ok(b.p, pushed)
                                   ELSE list_loop(toks, b.p, item, end, pushed)])
                          ELSE IF Matches(c.v, end) THEN Ok(c.p, pushed)
                          ELSE list_loop(toks, c.p, item, end, pushed)])])])])

\* list!($parser, $item, $end)
list(toks, p, item, end) == list_loop(toks, p, item, end, <<>>)

\* list!($parser ( $item ))
list_paren(toks, p, item) ==
    With([s \in {expect(toks, p, Tok("ParenOn"))} |->
        IF s.ok THEN list(toks, s.p, item, Tok("ParenOff")) ELSE s])

\* Parser::array_expression
array_expression(toks, p) ==
    With([l \in {list(toks, p, "expression", Tok("BracketOff"))} |->
        IF l.ok THEN Ok(l.p, [e |-> "Array", items |-> l.v]) ELSE l])

\* Parser::object_member
object_member(toks, p) ==
    With([c \in {consume(toks, p)} |->
        IF ~c.ok THEN c
        ELSE IF \/ c.v.t = "Identifier"
                \/ (c.v.t = "Literal" /\ c.v.v.l = "LiteralString")
        THEN LET key == IF c.v.t = "Identifier" THEN c.v.v ELSE c.v.v.string
             IN  With([a \in {allow(toks, c.p, Tok("Colon"))} |->
                 IF a.v
                 THEN With([x \in {expression(toks, a.p, 0)} |->
                          IF x.ok
                          THEN Ok(x.p, [m |-> "Literal", key |-> key, value |-> x.v])
                          ELSE x])
                 ELSE Ok(a.p, [m |-> "Shorthand", key |-> key])])
        ELSE IF c.v.t = "BracketOn"
        THEN With([k \in {expression(toks, c.p, 0)} |->
                 IF ~k.ok THEN k
                 ELSE With([b \in {expect(toks, k.p, Tok("BracketOff"))} |->
                          IF ~b.ok THEN b
                          ELSE With([cl \in {expect(toks, b.p, Tok("Colon"))} |->
                                   IF ~cl.ok THEN cl
                                   ELSE With([x \in {expression(toks, cl.p, 0)} |->
                                            IF x.ok
                                            THEN Ok(x.p, [m |-> "Computed", key |-> k.v,
                                                          value |-> x.v])
                                            ELSE x])])])])
        ELSE Panic("Expected object key", c.p)])

\* Parser::object_expression
object_expression(toks, p) ==
    With([l \in {list(toks, p, "object_member", Tok("BlockOff"))} |->
        IF l.ok THEN Ok(l.p, [e |-> "Object", members |-> l.v]) ELSE l])

\* Parser::block_body: the loop
block_body_loop(toks, p, body) ==
    With([a \in {allow(toks, p, Tok("BlockOff"))} |->
        IF a.v THEN Ok(a.p, body)
        ELSE With([st \in {statement(toks, a.p)} |->
                 IF ~st.ok THEN st
                 ELSE IF st.v = <<>> THEN Panic("Unexpected end of statements block", st.p)
                 ELSE block_body_loop(toks, st.p, Append(body, st.v[1]))])])

\* Parser::block_body
block_body(toks, p) ==
    With([s \in {expect(toks, p, Tok("BlockOn"))} |->
        IF s.ok THEN block_body_loop(toks, s.p, <<>>) ELSE s])

\* Parser::block_or_statement
block_or_statement(toks, p) ==
    With([la \in {lookahead(toks, p)} |->
        IF LookaheadIs(la, Tok("BlockOn"))
        THEN With([b \in {block_body(toks, la.p)} |->
                 IF b.ok THEN Ok(b.p, [s |-> "Block", body |-> b.v]) ELSE b])
        ELSE expression_statement(toks, la.p)])

\* A slip: the parameters collected in the reverse order of the sequence's items.
arrow_parameters_Reversed(items, i) ==
    [k \in 1..(Len(items) - i + 1) |-> [name |-> items[Len(items) - k + 1].name]]

RECURSIVE arrow_parameters(_, _)
\* Parser::arrow_function_expression: the cast of a sequence's items, from item i
arrow_parameters(items, i) ==
    IF i > Len(items) THEN <<>>
    ELSE <<[name |-> items[i].name]>> \o arrow_parameters(items, i + 1)

\* A slip: the body of an arrow function always parsed as an expression.
arrow_body_is_block_Never(la) == FALSE

\* Parser::arrow_function_expression: `if let Some(&BlockOn) = self.lookahead()`
arrow_body_is_block(la) == LookaheadIs(la, Tok("BlockOn"))

\* Parser::arrow_function_expression; left is the Option p of the code
arrow_function_expression(toks, p, left) ==
    LET castable ==
            \/ left = <<>>
            \/ left[1].e = "Identifier"
            \/ /\ left[1].e = "Sequence"
               /\ \A i \in DOMAIN left[1].items : left[1].items[i].e = "Identifier"
        params ==
            IF left = <<>> THEN <<>>
            ELSE IF left[1].e = "Identifier" THEN <<[name |-> left[1].name]>>
            ELSE arrow_parameters(left[1].items, 1)
    IN  IF ~castable THEN Panic("Cannot cast to parameters", p)
        ELSE With([la \in {lookahead(toks, p)} |->
             With([body \in {IF arrow_body_is_block(la)
                         THEN With([b \in {block_body(toks, la.p)} |->
                                  IF b.ok THEN Ok(b.p, [s |-> "Block", body |-> b.v])
                                  ELSE b])
                         ELSE With([x \in {expression(toks, la.p, 0)} |->
                                  IF x.ok THEN Ok(x.p, [s |-> "Expression", value |-> x.v])
                                  ELSE x])} |->
                 IF body.ok
                 THEN Ok(body.p, [e |-> "ArrowFunction", params |-> params,
                                  body |-> body.v])
                 ELSE body])])

\* Parser::prefix_expression
prefix_expression(toks, p, operator) ==
    LET bp == binding_power(operator)
    IN  IF ~prefix(operator) THEN Panic("Unexpected operator", p)
        ELSE With([x \in {expression(toks, p, bp)} |->
                 IF x.ok
                 THEN Ok(x.p, [e |-> "Prefix", operator |-> operator, operand |-> x.v])
                 ELSE x])

\* Parser::infix_expression
infix_expression(toks, p, left, bp) ==
    With([o \in {expect(toks, p, Tok("Operator"))} |->
        IF ~o.ok THEN o
        ELSE LET operator == o.v.v
             IN  CASE operator \in {"Increment", "Decrement"} ->
                 Ok(o.p, [e |-> "Postfix", operator |-> operator, operand |-> left])
          [] operator = "Accessor" ->
                 With([k \in {expect(toks, o.p, Tok("Identifier"))} |->
                     IF k.ok
                     THEN Ok(k.p, [e |-> "Member", object |-> left, property |-> k.v.v])
                     ELSE k])
          [] operator = "Conditional" ->
                 With([c \in {expression(toks, o.p, bp)} |->
                     IF ~c.ok THEN c
                     ELSE With([cl \in {expect(toks, c.p, Tok("Colon"))} |->
                              IF ~cl.ok THEN cl
                              ELSE With([a \in {expression(toks, cl.p, bp)} |->
                                       IF a.ok
                                       THEN Ok(a.p, [e |-> "Conditional", test |-> left,
                                                     consequent |-> c.v, alternate |-> a.v])
                                       ELSE a])])])
          [] operator = "FatArrow" -> arrow_function_expression(toks, o.p, <<left>>)
          [] OTHER ->
                 IF ~infix(operator) THEN Panic("Unexpected operator", o.p)
                 ELSE With([r \in {expression(toks, o.p, bp)} |->
                          IF r.ok
                          THEN Ok(r.p, [e |-> "Binary", left |-> left,
                                        operator |-> operator, right |-> r.v])
                          ELSE r])])

\* Parser::function_expression
function_expression(toks, p) ==
    With([la \in {lookahead(toks, p)} |->
    With([named \in {IF LookaheadIs(la, Tok("Identifier"))
                 THEN With([n \in {expect(toks, la.p, Tok("Identifier"))} |->
                          Ok(n.p, <<n.v.v>>)])
                 ELSE Ok(la.p, <<>>)} |->
    With([params \in {list_paren(toks, named.p, "parameter")} |->
        IF ~params.ok THEN params
        ELSE With([b \in {block_body(toks, params.p)} |->
                 IF b.ok
                 THEN Ok(b.p, [e |-> "Function", name |-> named.v, params |-> params.v,
                               body |-> b.v])
                 ELSE b])])])])

\* A slip: each further sub-expression put before the ones collected so far.
sequence_loop_Prepending(toks, p, items) ==
    With([a \in {allow(toks, p, Tok("ParenOff"))} |->
        IF a.v THEN Ok(a.p, [e |-> "Sequence", items |-> items])
        ELSE With([c \in {expect(toks, a.p, Tok("Comma"))} |->
                 IF ~c.ok THEN c
                 ELSE With([x \in {expression(toks, c.p, 0)} |->
                          IF x.ok THEN sequence_loop(toks, x.p, <<x.v>> \o items) ELSE x])])])

\* Parser::sequence_expression: the loop
sequence_loop(toks, p, items) ==
    With([a \in {allow(toks, p, Tok("ParenOff"))} |->
        IF a.v THEN Ok(a.p, [e |-> "Sequence", items |-> items])
        ELSE With([c \in {expect(toks, a.p, Tok("Comma"))} |->
                 IF ~c.ok THEN c
                 ELSE With([x \in {expression(toks, c.p, 0)} |->
                          IF x.ok THEN sequence_loop(toks, x.p, Append(items, x.v)) ELSE x])])])

\* Parser::sequence_expression
sequence_expression(toks, p) ==
    With([a \in {allow(toks, p, Tok("ParenOff"))} |->
        IF a.v
        THEN With([f \in {expect(toks, a.p, OperatorTok("FatArrow"))} |->
                 IF f.ok THEN arrow_function_expression(toks, f.p, <<>>) ELSE f])
        ELSE With([first \in {expression(toks, a.p, 0)} |->
                 IF ~first.ok THEN first
                 ELSE With([b \in {allow(toks, first.p, Tok("ParenOff"))} |->
                          IF b.v THEN Ok(b.p, first.v)
                          ELSE sequence_loop(toks, b.p, <<first.v>>)])])])

\* A slip: the loop ends when the next operator binds no tighter than lbp.
binds_looser_OrEqual(lbp, rbp) == lbp >= rbp

\* Parser::expression: the test `lbp > rbp` that ends the loop
binds_looser(lbp, rbp) == lbp > rbp

\* A slip: the loop never ends for a line break before the lookahead.
asi_gate_Never(la) == FALSE

\* Parser::expression: the first match of the loop, `if self.allow_asi { break 'right; }`
asi_gate(la) ==
    /\ \/ LookaheadIs(la, Tok("ParenOn"))
       \/ LookaheadIs(la, Tok("BracketOn"))
       \/ LookaheadIs(la, OperatorTok("Division"))
       \/ LookaheadIs(la, OperatorTok("Addition"))
       \/ LookaheadIs(la, OperatorTok("Substraction"))
    /\ la.p.allow_asi

\* Parser::expression: the loop 'right
expression_right(toks, p, left, lbp) ==
    With([la \in {lookahead(toks, p)} |->
    LET rbp == IF LookaheadIs(la, Tok("Operator")) THEN binding_power(la.v[1].v) ELSE 0
    IN  IF asi_gate(la) THEN Ok(la.p, left)
        ELSE IF binds_looser(lbp, rbp) THEN Ok(la.p, left)
        ELSE IF LookaheadIs(la, Tok("Operator"))
        THEN With([r \in {infix_expression(toks, la.p, left, rbp)} |->
                 IF r.ok THEN expression_right(toks, r.p, r.v, lbp) ELSE r])
        ELSE IF LookaheadIs(la, Tok("ParenOn"))
        THEN With([args \in {list_paren(toks, la.p, "expression")} |->
                 IF args.ok
                 THEN expression_right(toks, args.p,
                                       [e |-> "Call", callee |-> left,
                                        arguments |-> args.v],
                                       lbp)
                 ELSE args])
        ELSE IF LookaheadIs(la, Tok("BracketOn"))
        THEN With([s \in {expect(toks, la.p, Tok("BracketOn"))} |->
             With([x \in {expression(toks, s.p, 0)} |->
                 IF ~x.ok THEN x
                 ELSE With([c \in {expect(toks, x.p, Tok("BracketOff"))} |->
                          IF c.ok
                          THEN expression_right(toks, c.p,
                                                [e |-> "ComputedMember", object |-> left,
                                                 property |-> x.v],
                                                lbp)
                          ELSE c])])])
        ELSE Ok(la.p, left)])

\* Parser::expression
expression(toks, p, lbp) ==
    With([c \in {consume(toks, p)} |->
        IF ~c.ok THEN c
        ELSE With([left \in {CASE c.v.t = "This" -> Ok(c.p, [e |-> "This"])
                       [] c.v.t = "Identifier" ->
                              Ok(c.p, [e |-> "Identifier", name |-> c.v.v])
                       [] c.v.t = "Literal" -> Ok(c.p, [e |-> "Literal", value |-> c.v.v])
                       [] c.v.t = "Operator" -> prefix_expression(toks, c.p, c.v.v)
                       [] c.v.t = "ParenOn" -> sequence_expression(toks, c.p)
                       [] c.v.t = "BracketOn" -> array_expression(toks, c.p)
                       [] c.v.t = "BlockOn" -> object_expression(toks, c.p)
                       [] c.v.t = "Function" -> function_expression(toks, c.p)
                       [] OTHER -> unexpected_token(c.v, c.p)} |->
                 IF left.ok THEN expression_right(toks, left.p, left.v, lbp) ELSE left])])

\* A slip: the initializer taken for optional, a name alone making a declarator.
variable_declaration_loop_OptionalValue(toks, p, declarators) ==
    With([n \in {expect(toks, p, Tok("Identifier"))} |->
        IF ~n.ok THEN n
        ELSE With([eq \in {allow(toks, n.p, OperatorTok("Assign"))} |->
                 With([x \in {IF eq.v THEN expression(toks, eq.p, 0)
                              ELSE Ok(eq.p, <<>>)} |->
                     IF ~x.ok THEN x
                     ELSE LET pushed == Append(declarators,
                                               [name |-> n.v.v,
                                                value |-> IF eq.v THEN <<x.v>> ELSE <<>>])
                          IN  With([a \in {allow(toks, x.p, Tok("Comma"))} |->
                              IF a.v
                              THEN variable_declaration_loop(toks, a.p, pushed)
                              ELSE Ok(a.p, pushed)])])])])

\* Parser::variable_declaration_statement: the loop
variable_declaration_loop(toks, p, declarators) ==
    With([n \in {expect(toks, p, Tok("Identifier"))} |->
        IF ~n.ok THEN n
        ELSE With([eq \in {expect(toks, n.p, OperatorTok("Assign"))} |->
                 IF ~eq.ok THEN eq
                 ELSE With([x \in {expression(toks, eq.p, 0)} |->
                          IF ~x.ok THEN x
                          ELSE LET pushed == Append(declarators,
                                                    [name |-> n.v.v, value |-> <<x.v>>])
                               IN  With([a \in {allow(toks, x.p, Tok("Comma"))} |->
                                   IF a.v
                                   THEN variable_declaration_loop(toks, a.p, pushed)
                                   ELSE Ok(a.p, pushed)])])])])

\* Parser::variable_declaration_statement
variable_declaration_statement(toks, p, kind) ==
    With([d \in {variable_declaration_loop(toks, p, <<>>)} |->
        statement_end(toks,
            IF d.ok
            THEN Ok(d.p, [s |-> "VariableDeclaration", kind |-> kind, declarators |-> d.v])
            ELSE d)])

\* Parser::expression_statement
expression_statement(toks, p) ==
    With([x \in {expression(toks, p, 0)} |->
        statement_end(toks,
            IF x.ok THEN Ok(x.p, [s |-> "Expression", value |-> x.v]) ELSE x)])

\* Parser::return_statement
return_statement(toks, p) ==
    With([x \in {expression(toks, p, 0)} |->
        statement_end(toks,
            IF x.ok THEN Ok(x.p, [s |-> "Return", value |-> <<x.v>>]) ELSE x)])

\* surround!($parser ( $eval )) with $eval = self.expression(0)
surround_paren_expression(toks, p) ==
    With([s \in {expect(toks, p, Tok("ParenOn"))} |->
        IF ~s.ok THEN s
        ELSE With([x \in {expression(toks, s.p, 0)} |->
                 IF ~x.ok THEN x
                 ELSE With([c \in {expect(toks, x.p, Tok("ParenOff"))} |->
                          IF c.ok THEN Ok(c.p, x.v) ELSE c])])])

\* Parser::if_statement
if_statement(toks, p) ==
    With([test \in {surround_paren_expression(toks, p)} |->
        IF ~test.ok THEN test
        ELSE With([consequent \in {block_or_statement(toks, test.p)} |->
                 IF ~consequent.ok THEN consequent
                 ELSE With([el \in {allow(toks, consequent.p, Tok("Else"))} |->
                      With([alternate \in {IF el.v
                              THEN With([ei \in {allow(toks, el.p, Tok("If"))} |->
                                   With([alt \in {IF ei.v THEN if_statement(toks, ei.p)
                                              ELSE block_or_statement(toks, ei.p)} |->
                                       IF alt.ok THEN Ok(alt.p, <<alt.v>>) ELSE alt])])
                              ELSE Ok(el.p, <<>>)} |->
                          statement_end(toks,
                              IF alternate.ok
                              THEN Ok(alternate.p,
                                      [s |-> "If", test |-> test.v,
                                       consequent |-> consequent.v,
                                       alternate |-> alternate.v])
                              ELSE alternate)])])])])

\* Parser::while_statement
while_statement(toks, p) ==
    With([test \in {surround_paren_expression(toks, p)} |->
        IF ~test.ok THEN test
        ELSE With([body \in {block_or_statement(toks, test.p)} |->
                 statement_end(toks,
                     IF body.ok
                     THEN Ok(body.p, [s |-> "While", test |-> test.v, body |-> body.v])
                     ELSE body)])])

\* Parser::function_statement
function_statement(toks, p) ==
    With([n \in {expect(toks, p, Tok("Identifier"))} |->
        IF ~n.ok THEN n
        ELSE With([params \in {list_paren(toks, n.p, "parameter")} |->
                 IF ~params.ok THEN params
                 ELSE With([b \in {block_body(toks, params.p)} |->
                          IF b.ok
                          THEN Ok(b.p, [s |-> "Function", name |-> n.v.v,
                                        params |-> params.v, body |-> b.v])
                          ELSE b])])])

\* Parser::class_member
class_member(toks, p, name, is_static) ==
    With([la \in {lookahead(toks, p)} |->
        IF LookaheadIs(la, Tok("ParenOn"))
        THEN With([params \in {list_paren(toks, la.p, "parameter")} |->
                 IF ~params.ok THEN params
                 ELSE With([b \in {block_body(toks, params.p)} |->
                          IF ~b.ok THEN b
                          ELSE IF ~is_static /\ name = "constructor"
                          THEN Ok(b.p, [c |-> "Constructor", params |-> params.v,
                                        body |-> b.v])
                          ELSE Ok(b.p, [c |-> "Method", is_static |-> is_static,
                                        name |-> name, params |-> params.v,
                                        body |-> b.v])])])
        ELSE IF LookaheadIs(la, OperatorTok("Assign"))
        THEN With([x \in {expression(toks, consume(toks, la.p).p, 0)} |->
                 IF x.ok
                 THEN Ok(x.p, [c |-> "Property", is_static |-> is_static, name |-> name,
                               value |-> x.v])
                 ELSE x])
        ELSE unexpected_token_next(toks, la.p)])

\* Parser::class_statement: the loop 'members
class_members_loop(toks, p, members) ==
    With([c \in {consume(toks, p)} |->
        IF ~c.ok THEN c
        ELSE CASE c.v.t = "Identifier" ->
                      With([m \in {class_member(toks, c.p, c.v.v, FALSE)} |->
                          IF m.ok THEN class_members_loop(toks, m.p, Append(members, m.v))
                          ELSE m])
               [] c.v.t = "Static" ->
                      With([n \in {expect(toks, c.p, Tok("Identifier"))} |->
                          IF ~n.ok THEN n
                          ELSE With([m \in {class_member(toks, n.p, n.v.v, TRUE)} |->
                                   IF m.ok
                                   THEN class_members_loop(toks, m.p, Append(members, m.v))
                                   ELSE m])])
               [] c.v.t = "Semicolon" -> class_members_loop(toks, c.p, members)
               [] c.v.t = "BlockOff" -> Ok(c.p, members)
               [] OTHER -> unexpected_token(c.v, c.p)])

\* Parser::class_statement
class_statement(toks, p) ==
    With([n \in {expect(toks, p, Tok("Identifier"))} |->
        IF ~n.ok THEN n
        ELSE With([ex \in {allow(toks, n.p, Tok("Extends"))} |->
             With([super_class \in {IF ex.v
                                THEN With([sc \in {expect(toks, ex.p, Tok("Identifier"))} |->
                                         IF sc.ok THEN Ok(sc.p, <<sc.v.v>>) ELSE sc])
                                ELSE Ok(ex.p, <<>>)} |->
                 IF ~super_class.ok THEN super_class
                 ELSE With([o \in {expect(toks, super_class.p, Tok("BlockOn"))} |->
                          IF ~o.ok THEN o
                          ELSE With([ms \in {class_members_loop(toks, o.p, <<>>)} |->
                                   IF ms.ok
                                   THEN Ok(ms.p, [s |-> "Class", name |-> n.v.v,
                                                  extends |-> super_class.v,
                                                  body |-> ms.v])
                                   ELSE ms])])])])])

\* Some(statement) of a statement method's result
SomeStatement(r) == IF r.ok THEN Ok(r.p, <<r.v>>) ELSE r

\* Parser::statement: Ok(p, Option(Statement)) or a panic
statement(toks, p) ==
    With([la \in {lookahead(toks, p)} |->
    With([next \in {IF la.v = <<>> THEN la.p ELSE consume(toks, la.p).p} |->
        CASE LookaheadIs(la, Tok("Var")) ->
                 SomeStatement(variable_declaration_statement(toks, next, "Var"))
          [] LookaheadIs(la, Tok("Let")) ->
                 SomeStatement(variable_declaration_statement(toks, next, "Let"))
          [] LookaheadIs(la, Tok("Const")) ->
                 SomeStatement(variable_declaration_statement(toks, next, "Const"))
          [] LookaheadIs(la, Tok("Return")) -> SomeStatement(return_statement(toks, next))
          [] LookaheadIs(la, Tok("Function")) ->
                 SomeStatement(function_statement(toks, next))
          [] LookaheadIs(la, Tok("Class")) -> SomeStatement(class_statement(toks, next))
          [] LookaheadIs(la, Tok("If")) -> SomeStatement(if_statement(toks, next))
          [] LookaheadIs(la, Tok("While")) -> SomeStatement(while_statement(toks, next))
          [] LookaheadIs(la, Tok("Semicolon")) -> statement(toks, next)
          [] OTHER ->
                 IF la.v # <<>>
                 THEN SomeStatement(expression_statement(toks, la.p))
                 ELSE Ok(la.p, <<>>)])])

RECURSIVE parse_loop(_, _, _)
\* A slip: each statement put before the ones collected so far.
parse_loop_Prepending(toks, p, body) ==
    With([st \in {statement(toks, p)} |->
        IF ~st.ok THEN [ok |-> FALSE, msg |-> st.msg]
        ELSE IF st.v = <<>> THEN [ok |-> TRUE, body |-> body]
        ELSE parse_loop(toks, st.p, <<st.v[1]>> \o body)])

\* parse: the loop `while let Some(statement) = parser.statement()`
parse_loop(toks, p, body) ==
    With([st \in {statement(toks, p)} |->
        IF ~st.ok THEN [ok |-> FALSE, msg |-> st.msg]
        ELSE IF st.v = <<>> THEN [ok |-> TRUE, body |-> body]
        ELSE parse_loop(toks, st.p, Append(body, st.v[1]))])

\* parse, on the token stream of the source
parse_tokens(toks) == parse_loop(toks, Parser_new, <<>>)

\* parse
parse(text) ==
    LET t == Tokenizer(text)
    IN  IF t.ok THEN parse_tokens(t.toks) ELSE [ok |-> FALSE, msg |-> t.msg]

(***************************************************************************)
(* The pipeline: a driver hands a Program to generate_code, in either      *)
(* mode.                                                                   *)
(***************************************************************************)

\* generate_code(program, minify) on a Program that parse returned or a client built
Generate(minify) ==
    /\ program # <<>>
    /\ program[1].ok
    /\ code[minify] = <<>>
    /\ code' = [code EXCEPT ![minify] = <<generate_code(program[1].body, minify)>>]
    /\ UNCHANGED <<opVars, stepVars, source, program, reprogram, recode>>

RECURSIVE transform_statement(_)
\* transformer::transform under Settings::target_es5, as far as the specification
\* describes it: let and const declarations are demoted to var, at global scope
\* and inside blocks; the tree is otherwise left as it is
transform_statement(x) ==
    CASE x.s = "VariableDeclaration" -> [x EXCEPT !.kind = "Var"]
      [] x.s \in {"Block", "Transparent", "Function"} ->
             [x EXCEPT !.body = [i \in 1..Len(@) |-> transform_statement(@[i])]]
      [] x.s = "If" ->
             [x EXCEPT !.consequent = transform_statement(@),
                       !.alternate = [i \in 1..Len(@) |-> transform_statement(@[i])]]
      [] x.s \in {"While", "Labeled"} -> [x EXCEPT !.body = transform_statement(@)]
      [] x.s = "For" ->
             [x EXCEPT !.init = [i \in 1..Len(@) |-> transform_statement(@[i])],
                       !.body = transform_statement(@)]
      [] x.s \in {"ForIn", "ForOf"} ->
             [x EXCEPT !.left = transform_statement(@), !.body = transform_statement(@)]
      [] OTHER -> x

\* transformer::transform(&mut ast, Settings::target_es5())
transform(body) == [i \in 1..Len(body) |-> transform_statement(body[i])]

\* the optional transformer pass between parse and generate_code
Transform ==
    /\ program # <<>>
    /\ program[1].ok
    /\ \A minify \in BOOLEAN : code[minify] = <<>>
    /\ program' = <<[program[1] EXCEPT !.body = transform(@)]>>
    /\ UNCHANGED <<opVars, stepVars, source, code, reprogram, recode>>

\* parse(source)
Parse ==
    /\ source # ""
    /\ program = <<>>
    /\ program' = <<parse(source)>>
    /\ UNCHANGED <<opVars, stepVars, source, code, reprogram, recode>>

\* parse(text) on the text generate_code returned
Reparse(minify) ==
    /\ code[minify] # <<>>
    /\ code[minify][1].ok
    /\ reprogram[minify] = <<>>
    /\ reprogram' = [reprogram EXCEPT ![minify] = <<parse(code[minify][1].code)>>]
    /\ UNCHANGED <<opVars, stepVars, source, program, code, recode>>

\* generate_code on the Program of the second parse, in the same mode
Regenerate(minify) ==
    /\ reprogram[minify] # <<>>
    /\ reprogram[minify][1].ok
    /\ recode[minify] = <<>>
    /\ recode' = [recode EXCEPT ![minify] =
                      <<generate_code(reprogram[minify][1].body, minify)>>]
    /\ UNCHANGED <<opVars, stepVars, source, program, code, reprogram>>

(***************************************************************************)
(* Source texts handed to parse.                                           *)
(***************************************************************************)

\* the most declarators of a generated variable declaration
MaxDeclarators == 2
\* the most statements in the block of a generated if statement
MaxBlockStatements == 2

AtomSources == {"a", "1", "10", "007", "true", "false", "undefined", "null", "this",
                "3.14", "'s'"}

BinarySources == { "a " \o OperatorType_bytes(op) \o " b" : op \in Operators }

PrefixSources == { OperatorType_bytes(op) \o " a" : op \in Operators }

\* operators of the three-operand sources, over every level of binding power used
ChainOperators == {"Multiplication", "Division", "Exponent", "Addition", "Substraction",
                   "Lesser", "In", "StrictEquality", "BitwiseAnd", "LogicalAnd",
                   "LogicalOr", "Assign", "AddAssign"}

ChainSources ==
    UNION { { "a " \o OperatorType_bytes(o1) \o " b " \o OperatorType_bytes(o2) \o " c",
              "(a " \o OperatorType_bytes(o1) \o " b) " \o OperatorType_bytes(o2) \o " c",
              "a " \o OperatorType_bytes(o1) \o " (b " \o OperatorType_bytes(o2) \o " c)" }
            : o1 \in ChainOperators, o2 \in ChainOperators }

SignSources ==
    { "a " \o o \o " " \o pre \o "b" :
          o \in {"+", "-", "*"}, pre \in {"+", "-", "++", "--", "!", "typeof "} }
    \cup { p1 \o " " \o p2 \o "a" :
               p1 \in {"+", "-", "!", "typeof"}, p2 \in {"+", "-", "!", "void "} }
    \cup { "a" \o post \o " " \o o \o " b" : post \in {"++", "--"}, o \in {"+", "-"} }

OtherExpressionSources ==
    { "a++", "a--", "a.b", "a.b.c", "a[b]", "a[b][c]", "a(b)", "a()", "a(b, c)", "a(b,)",
      "a + b(c)", "a + b[c]", "a + b.c", "a.b(c)", "-a.b", "!a(b)", "a(b)(c)",
      "a ? b : c", "a ? b : c ? d : e", "(a ? b : c) ? d : e", "a = b ? c : d",
      "(a = b) ? c : d", "a ? b = c : d",
      "(a)", "((a))", "(a, b)", "(a, b, c)", "x = (a, b)", "(a,)",
      "a => b", "(a) => b", "(a, b) => c", "() => a", "() => { a; }", "() => {}",
      "a => b => c", "(a, 1) => c", "(a + b) => c", "1 => a", "a.b => c", "this => a",
      "(a, b, c) => d", "a(b) => c", "()", "() a",
      "x = a => b", "(a => b)(c)", "a => (b, c)", "a => { b }", "a =>\n{ b; }",
      "a =>\nb", "a => {}", "a => ({})",
      "[]", "[a]", "[a, b]", "[a, b,]", "[a b]", "[[a], b]",
      "({})", "x = {}", "x = {a}", "x = {a, b: 1}", "x = {a: 1, 's': b, [c]: 2}",
      "x = {a b}", "x = {1: a}", "x = {[a] b}",
      "(function(){})", "(function f(a, b) { return a; })", "x = function(a) { a; }",
      "x = function(a b) {}", "f(function(){})",
      "f(a b)", "f(a; b)", "a b", "a 1", "a +", "(a", "a)", "a ? b", "a.1", "a[b",
      "new a", "new a(b)", "typeof a === b", "void 0", "!0", "!1", "...a", "delete a.b" }

ExpressionSources ==
    AtomSources \cup BinarySources \cup PrefixSources \cup ChainSources
    \cup SignSources \cup OtherExpressionSources

ExpressionStatementSources ==
    ExpressionSources
    \cup { x \o ";\n" : x \in ExpressionSources \ ChainSources }
    \cup { x \o end : x \in AtomSources \cup {"a + b", "a(b)"}, end \in {";", "\n", ";;"} }

\* the name of the i-th declarator
DeclaratorName(i) == Ch("pqrstuvw", i)

ValueSources == {"314", "a + b"}

RECURSIVE DeclaratorsSource(_, _, _)
\* the first n declarators, with the values `values` and `assign` between name and value
DeclaratorsSource(values, assign, n) ==
    IF n = 0 THEN ""
    ELSE DeclaratorsSource(values, assign, n - 1)
         \o (IF n = 1 THEN "" ELSE ", ")
         \o DeclaratorName(n) \o assign \o values[n]

DeclarationSources ==
    UNION { { kind \o " " \o DeclaratorsSource(values, assign, n) \o end :
                  kind \in {"var", "let", "const"},
                  values \in [1..n -> ValueSources],
                  assign \in {" = ", "="},
                  end \in {";", ";\n", "\n"} }
            : n \in 1..MaxDeclarators }
    \cup { "var pi = 314;\n", "let pi = 314;\n", "const pi = 314;\n",
           "var a", "var a;", "let a = ", "var a, b = 1", "var a = 1, b;", "const a", "var 1 = a", "var a = 1,", "var a = 1 b = 2",
           "var a = 1 var b = 2", "var a = 1\nvar b = 2", "var a = 1; var b = 2;" }

BlockStatementSources == {"let pi = 3.14;", "a = 1", "f(a);"}

BlockSources ==
    UNION { [1..n -> BlockStatementSources] : n \in 0..MaxBlockStatements }

RECURSIVE LinesSource(_, _, _)
\* the first n statements, each on a line of its own after `margin`
LinesSource(stmts, margin, n) ==
    IF n = 0 THEN ""
    ELSE LinesSource(stmts, margin, n - 1) \o margin \o stmts[n] \o "\n"

IfTestSources == {"true", "a", "a < b"}

\* an if statement whose consequent is a block spread over several lines
IfBlockSource(test, stmts, style) ==
    IF style = 1
    THEN "if(" \o test \o ") {\n" \o LinesSource(stmts, "      ", Len(stmts)) \o "    }\n"
    ELSE "if (" \o test \o ")\n{\n" \o LinesSource(stmts, "", Len(stmts)) \o "}"

IfBlockSources ==
    { IfBlockSource(test, stmts, style) :
          test \in IfTestSources, stmts \in BlockSources, style \in {1, 2} }

OtherStatementSources ==
    { "if (a) b;", "if (a) b; else c;", "if (a) b\nelse c", "if (a) {} else {}",
      "if (a) {} else if (b) {} else {}", "if (a) {} b", "if (a) {}\nb", "if (a) {};b",
      "if a {}", "if (a {}", "if (a) { b", "if (a) {\n} else {\n}\n",
      "while (a) b;", "while (a) { b; }", "while (a) {} b", "while (a) {}\nb",
      "return a", "return a;", "return;", "return", "return\na", "return a + b\n",
      "function f() {}", "function f(a, b) { return a; }", "function () {}",
      "function f(a) { return; }", "function f(a) { a }", "function f(a) { ; a;; }",
      "function f() {} a", "function f(a b) {}",
      "class A {}", "class A extends B {}", "class A { constructor(a) {} }",
      "class A { static m() {} p = 1; q = 2 }", "class A { m(a) { a; } ; }",
      "class A { static constructor() {} }", "class A { 1 }", "class A { m }", "class A",
      "a\nb", "a;b", "a\n(b)", "a(b)\n[c]", "a\n+ b", "a\n- b", "a\n/ b", "a\n* b", "a\n.b",
      "a\n++\nb", "a +\nb", "a\n\nb\n", ";", ";;a", "\n", "a;\n;\nb;", "{ a; }",
      "for (;;) {}", "break;", "throw a;", "l: a", "a @ b" }

Sources ==
    ExpressionStatementSources \cup DeclarationSources \cup IfBlockSources
    \cup OtherStatementSources

Init ==
    /\ OpsIdle
    /\ StepIdle
    /\ source \in Sources
    /\ program = <<>>
    /\ code = [m \in BOOLEAN |-> <<>>]
    /\ reprogram = [m \in BOOLEAN |-> <<>>]
    /\ recode = [m \in BOOLEAN |-> <<>>]

Next ==
    \/ Parse
    \/ Transform
    \/ \E minify \in BOOLEAN :
           \/ Generate(minify)
           \/ Reparse(minify)
           \/ Regenerate(minify)

Spec == Init /\ [][Next]_vars

(***************************************************************************)
(* A Parser stepped method by method: a Parser is constructed on the token *)
(* stream of a source and its methods are applied to it one after another, *)
(* each in the state the previous one left.  A panic ends the run.         *)
(***************************************************************************)
StepSources ==
    OtherStatementSources \cup OtherExpressionSources
    \cup { a \o t : a \in {"a", "1", "this", "a + b", "a(b)"},
                    t \in {"", ";", "\n", ";;", "\n;", " b", "\nb", ")", "}", ";}", "\n}"} }
    \cup { "var a = 1;", "let a = 1\nlet b = 2", "const a = 1, b = 2;", "var a = 1 b = 2",
           "var a = 1\n, b = 2\nc", "var a", "var a = 1)", "return a\n}", "return a b",
           "{ a; b }", "{ ; }", "{ a;; }", "{\n;\n}", "{ a b }", "a\n[b]", "a[b]" }

\* no method has panicked
Alive == step.r.ok

\* method was applied to the Parser and gave r
Stepped(method, r) ==
    /\ Alive
    /\ step' = [method |-> method, p |-> parser, r |-> r]
    /\ parser' = r.p
    /\ UNCHANGED <<opVars, pipeVars, tokens>>

StepLookahead ==
    LET la == lookahead(tokens, parser)
    IN  Stepped("lookahead", Ok(la.p, la.v))

StepConsume == Stepped("consume", consume(tokens, parser))

StepExpression == Stepped("expression", expression(tokens, parser, 0))

StepExpressionStatement ==
    Stepped("expression_statement", expression_statement(tokens, parser))

StepReturnStatement == Stepped("return_statement", return_statement(tokens, parser))

StepVariableDeclarationStatement ==
    Stepped("variable_declaration_statement",
            variable_declaration_statement(tokens, parser, "Var"))

StepStatement == Stepped("statement", statement(tokens, parser))

StepBlockBody == Stepped("block_body", block_body(tokens, parser))

\* Parser::new on a source the tokenizer accepts; nothing is parsed as a whole
InitStep ==
    /\ OpsIdle
    /\ source \in { x \in StepSources : Tokenizer(x).ok }
    /\ program = <<>>
    /\ code = [m \in BOOLEAN |-> <<>>]
    /\ reprogram = [m \in BOOLEAN |-> <<>>]
    /\ recode = [m \in BOOLEAN |-> <<>>]
    /\ tokens = Tokenizer(source).toks
    /\ parser = Parser_new
    /\ step = [method |-> "new", p |-> Parser_new, r |-> Ok(Parser_new, <<>>)]

NextStep ==
    \/ StepLookahead
    \/ StepConsume
    \/ StepExpression
    \/ StepExpressionStatement
    \/ StepReturnStatement
    \/ StepVariableDeclarationStatement
    \/ StepStatement
    \/ StepBlockBody

SpecStep == InitStep /\ [][NextStep]_vars

(***************************************************************************)
(* Hand-built programs: the ASTs a transformer or another client may hand  *)
(* to generate_code.                                                       *)
(***************************************************************************)

\* the largest integer literal of the hand-built programs
MaxInteger == 12

Ident(n) == [e |-> "Identifier", name |-> n]
Lit(v) == [e |-> "Literal", value |-> v]
IntLit(n) == Lit([l |-> "LiteralInteger", num |-> n])
Bin(l, op, r) == [e |-> "Binary", left |-> l, operator |-> op, right |-> r]
Pre(op, x) == [e |-> "Prefix", operator |-> op, operand |-> x]
Post(op, x) == [e |-> "Postfix", operator |-> op, operand |-> x]
ExprStmt(x) == [s |-> "Expression", value |-> x]
Param(n) == [name |-> n]

LiteralValues ==
    { [l |-> k] : k \in {"LiteralUndefined", "LiteralNull", "LiteralTrue", "LiteralFalse"} }
    \cup { [l |-> "LiteralInteger", num |-> n] : n \in 0..MaxInteger }
    \cup { [l |-> "LiteralFloat", num |-> f] : f \in {"3.14", "0.5"} }
    \cup { [l |-> "LiteralString", string |-> t] : t \in {"'s'", "\"true\""} }

\* one or more samples of every Expression variant
SampleExpressions ==
    { [e |-> "This"], Ident("a"), IntLit(1), Lit([l |-> "LiteralTrue"]),
      [e |-> "Array", items |-> <<Ident("a"), Ident("b")>>],
      [e |-> "Sequence", items |-> <<Ident("a"), Ident("b")>>],
      [e |-> "Object", members |-> <<>>],
      [e |-> "Object", members |-> <<[m |-> "Shorthand", key |-> "a"],
                                     [m |-> "Literal", key |-> "b", value |-> IntLit(1)]>>],
      [e |-> "Member", object |-> Ident("a"), property |-> "b"],
      [e |-> "ComputedMember", object |-> Ident("a"), property |-> Ident("b")],
      [e |-> "Call", callee |-> Ident("a"), arguments |-> <<Ident("b")>>],
      [e |-> "Conditional", test |-> Ident("a"), consequent |-> Ident("b"),
       alternate |-> Ident("c")],
      [e |-> "ArrowFunction", params |-> <<Param("a")>>, body |-> ExprStmt(Ident("b"))],
      [e |-> "ArrowFunction", params |-> <<>>,
       body |-> [s |-> "Block", body |-> <<ExprStmt(Ident("b"))>>]],
      [e |-> "Function", name |-> <<>>, params |-> <<Param("a"), Param("b")>>,
       body |-> <<[s |-> "Return", value |-> <<Ident("a")>>]>>],
      [e |-> "Function", name |-> <<"f">>, params |-> <<>>, body |-> <<>>] }
    \cup { Bin(Ident("a"), op, Ident("b")) : op \in Operators }
    \cup { Pre(op, Ident("a")) : op \in {"LogicalNot", "Typeof", "Substraction", "New", "Void",
                                      "Delete"} }
    \cup { Post(op, Ident("a")) : op \in {"Increment", "Decrement"} }

\* Binary nodes over every operator and every sample left operand
SampleBinaries ==
    { Bin(l, op, r) : l \in SampleExpressions, op \in Operators,
                      r \in {Ident("c"), Bin(Ident("c"), "Addition", Ident("d"))} }

\* statements of the variants the parser has no production for, and others
SampleStatements ==
    { [s |-> "Labeled", label |-> "l", body |-> ExprStmt(Ident("a"))],
      [s |-> "Transparent", body |-> <<ExprStmt(Ident("a")), ExprStmt(Ident("b"))>>],
      [s |-> "Break", label |-> <<>>],
      [s |-> "Break", label |-> <<"l">>],
      [s |-> "Return", value |-> <<>>],
      [s |-> "Throw", value |-> Ident("a")],
      [s |-> "While", test |-> Ident("a"), body |-> [s |-> "Block", body |-> <<>>]],
      [s |-> "If", test |-> Ident("a"), consequent |-> ExprStmt(Ident("b")),
       alternate |-> <<ExprStmt(Ident("c"))>>],
      [s |-> "For", init |-> <<>>, test |-> <<>>, update |-> <<>>,
       body |-> [s |-> "Block", body |-> <<>>]],
      [s |-> "For",
       init |-> <<[s |-> "VariableDeclaration", kind |-> "Var",
                   declarators |-> <<[name |-> "i", value |-> <<IntLit(0)>>]>>]>>,
       test |-> <<Bin(Ident("i"), "Lesser", IntLit(9))>>,
       update |-> <<Post("Increment", Ident("i"))>>,
       body |-> ExprStmt(Ident("a"))],
      [s |-> "For", init |-> <<[s |-> "Break", label |-> <<>>]>>, test |-> <<>>,
       update |-> <<>>, body |-> ExprStmt(Ident("a"))],
      [s |-> "ForIn", left |-> ExprStmt(Ident("k")), right |-> Ident("o"),
       body |-> ExprStmt(Ident("a"))],
      [s |-> "ForOf",
       left |-> [s |-> "VariableDeclaration", kind |-> "Let",
                 declarators |-> <<[name |-> "k", value |-> <<>>]>>],
       right |-> Ident("o"), body |-> [s |-> "Block", body |-> <<ExprStmt(Ident("a"))>>]],
      [s |-> "Class", name |-> "A", extends |-> <<"B">>,
       body |-> <<[c |-> "Constructor", params |-> <<>>, body |-> <<>>],
                  [c |-> "Method", is_static |-> TRUE, name |-> "m",
                   params |-> <<Param("a")>>, body |-> <<ExprStmt(Ident("a"))>>],
                  [c |-> "Property", is_static |-> FALSE, name |-> "p",
                   value |-> IntLit(1)]>>],
      [s |-> "Function", name |-> "f", params |-> <<Param("a")>>,
       body |-> <<[s |-> "Return", value |-> <<Ident("a")>>]>>] }

HandBuiltPrograms ==
    { <<ExprStmt(x)>> : x \in SampleBinaries \cup SampleExpressions }
    \cup { <<ExprStmt(Lit(v))>> : v \in LiteralValues }
    \cup { <<x>> : x \in SampleStatements }

InitGen ==
    /\ OpsIdle
    /\ StepIdle
    /\ source = ""
    /\ program \in { <<[ok |-> TRUE, body |-> b]>> : b \in HandBuiltPrograms }
    /\ code = [m \in BOOLEAN |-> <<>>]
    /\ reprogram = [m \in BOOLEAN |-> <<>>]
    /\ recode = [m \in BOOLEAN |-> <<>>]

NextGen == \E minify \in BOOLEAN : Generate(minify)

SpecGen == InitGen /\ [][NextGen]_vars

(***************************************************************************)
(* Claims about the generator on hand-built programs.                      *)
(***************************************************************************)

StartsWith(text, head) ==
    Len(head) <= Len(text) /\ SubSeq(text, 1, Len(head)) = head

EndsWith(text, tail) ==
    Len(tail) <= Len(text) /\ SubSeq(text, Len(text) - Len(tail) + 1, Len(text)) = tail

\* the program is the single expression statement of an expression of variant v
IsExpressionProgram(v) ==
    /\ program # <<>>
    /\ program[1].ok
    /\ Len(program[1].body) = 1
    /\ program[1].body[1].s = "Expression"
    /\ program[1].body[1].value.e = v

TheExpression == program[1].body[1].value

\* the text of an expression generated on its own
TextOf(x, minify) == Expression_to_code(x, Generator_new(minify)).code

\* C4: the text of a Binary begins with its left operand's text wrapped in
\* parentheses exactly when left.binding_power() < the Binary's binding_power(),
\* and with the bare text of the left operand otherwise.
C4_LeftParenthesizedIffLooser ==
    \A minify \in BOOLEAN :
        (IsExpressionProgram("Binary") /\ code[minify] # <<>>) =>
            LET left == TextOf(TheExpression.left, minify)
                out == code[minify][1].code
                wrapped == StartsWith(out, "(" \o left \o ")")
            IN  /\ code[minify][1].ok
                /\ wrapped <=> (Expression_binding_power(TheExpression.left)
                                    < Expression_binding_power(TheExpression))
                /\ ~wrapped => StartsWith(out, left)

\* C4 witness: a product whose left operand is a sum has been generated minified,
\* with the left operand in parentheses.
C4_Witness ==
    /\ IsExpressionProgram("Binary")
    /\ TheExpression = Bin(Bin(Ident("a"), "Addition", Ident("b")), "Multiplication",
                           Ident("c"))
    /\ code[TRUE] = <<[ok |-> TRUE, code |-> "(a+b)*c;"]>>

\* the text generated for the literal of a one-literal program
LiteralText(minify) ==
    LET out == code[minify][1].code
        framing == IF minify THEN ";" ELSE ";\n"
    IN  IF EndsWith(out, framing) THEN <<SubSeq(out, 1, Len(out) - Len(framing))>> ELSE <<>>

\* C5: True, False and Undefined are written !0, !1, void 0 when minify is true
\* and true, false, undefined when it is false; the other literals are written
\* the same in both modes.
C5_LiteralForms ==
    IsExpressionProgram("Literal") =>
        LET kind == TheExpression.value.l IN
        /\ code[TRUE] # <<>> =>
               /\ kind = "LiteralTrue" => LiteralText(TRUE) = <<"!0">>
               /\ kind = "LiteralFalse" => LiteralText(TRUE) = <<"!1">>
               /\ kind = "LiteralUndefined" => LiteralText(TRUE) = <<"void 0">>
        /\ code[FALSE] # <<>> =>
               /\ kind = "LiteralTrue" => LiteralText(FALSE) = <<"true">>
               /\ kind = "LiteralFalse" => LiteralText(FALSE) = <<"false">>
               /\ kind = "LiteralUndefined" => LiteralText(FALSE) = <<"undefined">>
        /\ (code[TRUE] # <<>> /\ code[FALSE] # <<>>
            /\ kind \in {"LiteralNull", "LiteralInteger", "LiteralFloat", "LiteralString"}) =>
               /\ LiteralText(TRUE) # <<>>
               /\ LiteralText(TRUE) = LiteralText(FALSE)

\* C5 witness: false has been generated in both modes.
C5_Witness ==
    /\ IsExpressionProgram("Literal")
    /\ TheExpression.value.l = "LiteralFalse"
    /\ code[TRUE] = <<[ok |-> TRUE, code |-> "!1;"]>>
    /\ code[FALSE] = <<[ok |-> TRUE, code |-> "false;\n"]>>

(***************************************************************************)
(* Claims about the operator metadata.                                     *)
(***************************************************************************)

\* The precedence table as the specification prints it, by operator symbol group.
SpecTable(op) ==
    CASE op \in {"Accessor", "FatArrow"} -> 18
      [] op = "New" -> 17
      [] op \in {"Increment", "Decrement"} -> 16
      [] op \in {"LogicalNot", "BitwiseNot", "Typeof", "Void", "Delete"} -> 15
      [] op \in {"Multiplication", "Division", "Remainder", "Exponent"} -> 14
      [] op \in {"Addition", "Substraction"} -> 13
      [] op \in {"BitShiftLeft", "BitShiftRight", "UBitShiftRight"} -> 12
      [] op \in {"Lesser", "LesserEquals", "Greater", "GreaterEquals",
                 "Instanceof", "In"} -> 11
      [] op \in {"StrictEquality", "StrictInequality", "Equality", "Inequality"} -> 10
      [] op = "BitwiseAnd" -> 9
      [] op = "BitwiseXor" -> 8
      [] op = "BitwiseOr" -> 7
      [] op = "LogicalAnd" -> 6
      [] op = "LogicalOr" -> 5
      [] op = "Conditional" -> 4
      [] op \in {"Assign", "AddAssign", "SubstractAssign", "ExponentAssign",
                 "MultiplyAssign", "DivideAssign", "RemainderAssign",
                 "BSLAssign", "BSRAssign", "UBSRAssign",
                 "BitAndAssign", "BitXorAssign", "BitOrAssign"} -> 3
      [] op = "Spread" -> 1
      [] OTHER -> 0

\* C8: every variant's binding power lies in 1..18, equals the value of the
\* specification's table, and does not exceed the binding power of the variant
\* declared just before it.
C8_BindingPowerTable ==
    row.binding_power # <<>> =>
        /\ row.binding_power[1] \in 1..18
        /\ row.binding_power[1] = SpecTable(CurrentOperator)
        /\ prev_bp # <<>> => prev_bp[1] >= row.binding_power[1]

\* C8 witness: the walk has reached the last variant, with its binding power and
\* that of the variant before it both answered.
C8_Witness ==
    /\ op_index = Len(OperatorType)
    /\ row.binding_power = <<1>>
    /\ prev_bp = <<3>>

\* C9: every variant is prefix, infix, Spread or an assignment operator; and an
\* assignment operator is infix and has binding power 3.
C9_Classification ==
    /\ (row.prefix # <<>> /\ row.infix # <<>> /\ row.assignment # <<>>) =>
           \/ row.prefix[1]
           \/ row.infix[1]
           \/ CurrentOperator = "Spread"
           \/ row.assignment[1]
    /\ (row.assignment # <<>> /\ row.assignment[1]) =>
           /\ row.infix # <<>> => row.infix[1]
           /\ row.binding_power # <<>> => row.binding_power[1] = 3

\* C9 witness: an assignment operator with all four queries answered.
C9_Witness ==
    /\ CurrentOperator = "BitOrAssign"
    /\ row = [binding_power |-> <<3>>, prefix |-> <<FALSE>>,
              infix |-> <<TRUE>>, assignment |-> <<TRUE>>]

\* C10 as stated: Addition, Substraction, Increment and Decrement each answer
\* true to both prefix() and infix().
C10_Original ==
    CurrentOperator \in {"Addition", "Substraction", "Increment", "Decrement"} =>
        /\ row.prefix # <<>> => row.prefix[1]
        /\ row.infix # <<>> => row.infix[1]

\* C10 amended: Addition and Substraction answer true to both prefix() and
\* infix(); Increment and Decrement answer true to prefix() and false to infix().
C10_SignsBothIncDecPrefixOnly ==
    /\ CurrentOperator \in {"Addition", "Substraction"} =>
           /\ row.prefix # <<>> => row.prefix[1]
           /\ row.infix # <<>> => row.infix[1]
    /\ CurrentOperator \in {"Increment", "Decrement"} =>
           /\ row.prefix # <<>> => row.prefix[1]
           /\ row.infix # <<>> => ~row.infix[1]

\* C10 witness: Decrement asked both queries.
C10_Witness ==
    /\ CurrentOperator = "Decrement"
    /\ row.prefix = <<TRUE>>
    /\ row.infix = <<FALSE>>


(***************************************************************************)
(* Round trips through parse and generate_code.                            *)
(***************************************************************************)

\* C1: the pretty text generated for the program parse accepted is accepted by
\* parse again, and the second program is structurally equal to the first.
C1_PrettyRoundTrip ==
    (program # <<>> /\ reprogram[FALSE] # <<>>) =>
        /\ reprogram[FALSE][1].ok
        /\ reprogram[FALSE][1].body = program[1].body

\* C2: in each mode the second parse of the generated text does not abort, and
\* the text generated from it is byte for byte the text generated first.
C2_GenerateIdempotent ==
    \A minify \in BOOLEAN :
        /\ reprogram[minify] # <<>> => reprogram[minify][1].ok
        /\ recode[minify] # <<>> => recode[minify][1] = code[minify][1]

RECURSIVE NormalizeExpression(_), NormalizeStatement(_), NormalizeObjectMember(_),
          NormalizeClassMember(_)
\* an expression with Literal(True), Literal(False) and Literal(Undefined)
\* replaced by what parse makes of !0, !1 and void 0
NormalizeExpression(x) ==
    CASE x.e = "Literal" ->
             CASE x.value.l = "LiteralTrue" -> Pre("LogicalNot", IntLit(0))
               [] x.value.l = "LiteralFalse" -> Pre("LogicalNot", IntLit(1))
               [] x.value.l = "LiteralUndefined" -> Pre("Void", IntLit(0))
               [] OTHER -> x
      [] x.e \in {"Array", "Sequence"} ->
             [x EXCEPT !.items = [i \in 1..Len(@) |-> NormalizeExpression(@[i])]]
      [] x.e = "Member" -> [x EXCEPT !.object = NormalizeExpression(@)]
      [] x.e = "ComputedMember" ->
             [x EXCEPT !.object = NormalizeExpression(@),
                       !.property = NormalizeExpression(@)]
      [] x.e = "Call" ->
             [x EXCEPT !.callee = NormalizeExpression(@),
                       !.arguments = [i \in 1..Len(@) |-> NormalizeExpression(@[i])]]
      [] x.e = "Binary" ->
             [x EXCEPT !.left = NormalizeExpression(@), !.right = NormalizeExpression(@)]
      [] x.e \in {"Prefix", "Postfix"} -> [x EXCEPT !.operand = NormalizeExpression(@)]
      [] x.e = "Conditional" ->
             [x EXCEPT !.test = NormalizeExpression(@),
                       !.consequent = NormalizeExpression(@),
                       !.alternate = NormalizeExpression(@)]
      [] x.e = "ArrowFunction" -> [x EXCEPT !.body = NormalizeStatement(@)]
      [] x.e = "Function" ->
             [x EXCEPT !.body = [i \in 1..Len(@) |-> NormalizeStatement(@[i])]]
      [] x.e = "Object" ->
             [x EXCEPT !.members = [i \in 1..Len(@) |-> NormalizeObjectMember(@[i])]]
      [] OTHER -> x

NormalizeObjectMember(x) ==
    CASE x.m = "Literal" -> [x EXCEPT !.value = NormalizeExpression(@)]
      [] x.m = "Computed" ->
             [x EXCEPT !.key = NormalizeExpression(@), !.value = NormalizeExpression(@)]
      [] x.m = "Method" ->
             [x EXCEPT !.body = [i \in 1..Len(@) |-> NormalizeStatement(@[i])]]
      [] x.m = "ComputedMethod" ->
             [x EXCEPT !.name = NormalizeExpression(@),
                       !.body = [i \in 1..Len(@) |-> NormalizeStatement(@[i])]]
      [] OTHER -> x

NormalizeClassMember(x) ==
    CASE x.c = "Property" -> [x EXCEPT !.value = NormalizeExpression(@)]
      [] OTHER -> [x EXCEPT !.body = [i \in 1..Len(@) |-> NormalizeStatement(@[i])]]

NormalizeStatement(x) ==
    CASE x.s \in {"Expression", "Throw"} -> [x EXCEPT !.value = NormalizeExpression(@)]
      [] x.s = "Return" ->
             [x EXCEPT !.value = [i \in 1..Len(@) |-> NormalizeExpression(@[i])]]
      [] x.s = "VariableDeclaration" ->
             [x EXCEPT !.declarators =
                 [i \in 1..Len(@) |->
                     [@[i] EXCEPT !.value =
                         [j \in 1..Len(@) |-> NormalizeExpression(@[j])]]]]
      [] x.s \in {"Block", "Transparent", "Function"} ->
             [x EXCEPT !.body = [i \in 1..Len(@) |-> NormalizeStatement(@[i])]]
      [] x.s = "Class" ->
             [x EXCEPT !.body = [i \in 1..Len(@) |-> NormalizeClassMember(@[i])]]
      [] x.s = "Labeled" -> [x EXCEPT !.body = NormalizeStatement(@)]
      [] x.s = "If" ->
             [x EXCEPT !.test = NormalizeExpression(@),
                       !.consequent = NormalizeStatement(@),
                       !.alternate = [i \in 1..Len(@) |-> NormalizeStatement(@[i])]]
      [] x.s = "While" ->
             [x EXCEPT !.test = NormalizeExpression(@), !.body = NormalizeStatement(@)]
      [] x.s = "For" ->
             [x EXCEPT !.init = [i \in 1..Len(@) |-> NormalizeStatement(@[i])],
                       !.test = [i \in 1..Len(@) |-> NormalizeExpression(@[i])],
                       !.update = [i \in 1..Len(@) |-> NormalizeExpression(@[i])],
                       !.body = NormalizeStatement(@)]
      [] x.s \in {"ForIn", "ForOf"} ->
             [x EXCEPT !.left = NormalizeStatement(@),
                       !.right = NormalizeExpression(@),
                       !.body = NormalizeStatement(@)]
      [] OTHER -> x

Normalize(body) == [i \in 1..Len(body) |-> NormalizeStatement(body[i])]

\* C3: the minified text and the pretty text of one program are both accepted
\* by parse, and the two programs parsed from them are structurally equal once
\* true, false and undefined are identified with the parsed !0, !1 and void 0.
C3_ModesParseAlike ==
    (reprogram[TRUE] # <<>> /\ reprogram[FALSE] # <<>>) =>
        /\ reprogram[TRUE][1].ok
        /\ reprogram[FALSE][1].ok
        /\ Normalize(reprogram[TRUE][1].body) = Normalize(reprogram[FALSE][1].body)

(***************************************************************************)
(* Minified statements.                                                    *)
(***************************************************************************)

\* the program is a single variable declaration statement
IsDeclarationProgram ==
    /\ program # <<>>
    /\ program[1].ok
    /\ Len(program[1].body) = 1
    /\ program[1].body[1].s = "VariableDeclaration"

KindKeyword(kind) ==
    CASE kind = "Var" -> "var" [] kind = "Let" -> "let" [] kind = "Const" -> "const"

RECURSIVE DeclaratorsText(_, _)
\* name=value of the first n declarators, joined by commas
DeclaratorsText(ds, n) ==
    IF n = 0 THEN ""
    ELSE DeclaratorsText(ds, n - 1) \o (IF n = 1 THEN "" ELSE ",")
         \o ds[n].name \o "=" \o TextOf(ds[n].value[1], TRUE)

\* C6: the minified text of an accepted variable declaration is the kind
\* keyword, one space, the declarators as name=value joined by commas, and a
\* semicolon, whatever spaces and line ends the source had.
C6_MinifiedDeclaration ==
    (IsDeclarationProgram /\ code[TRUE] # <<>>) =>
        LET st == program[1].body[1] IN
        /\ \A i \in 1..Len(st.declarators) : st.declarators[i].value # <<>>
        /\ code[TRUE][1] =
            [ok |-> TRUE,
             code |-> KindKeyword(st.kind) \o " "
                      \o DeclaratorsText(st.declarators, Len(st.declarators)) \o ";"]

\* C6 witness: var pi = 314; followed by a line end has been parsed and generated
\* minified as var pi=314;
C6_Witness ==
    /\ source = "var pi = 314;\n"
    /\ IsDeclarationProgram
    /\ code[TRUE] = <<[ok |-> TRUE, code |-> "var pi=314;"]>>

\* the test, the block statements and the layout an if source was built from
IfBlockParts ==
    { <<test, stmts, style>> :
          test \in IfTestSources, stmts \in BlockSources, style \in {1, 2} }

IfBlockPartsOf ==
    [text \in IfBlockSources |->
        CHOOSE parts \in IfBlockParts :
            IfBlockSource(parts[1], parts[2], parts[3]) = text]

RECURSIVE StatementsText(_, _)
\* the minified texts of the first n statements, one after the other
StatementsText(stmts, n) ==
    IF n = 0 THEN ""
    ELSE StatementsText(stmts, n - 1)
         \o Statement_to_code(stmts[n], Generator_new(TRUE)).code

\* C7: an if statement with a braced block over several lines is parsed as
\* If{test, Block{statements}, no alternate}, and its minified text is if( test
\* ){ statements } with nothing between the parts and nothing after the brace.
C7_IfBlock ==
    (source \in IfBlockSources /\ program # <<>>) =>
        LET parts == IfBlockPartsOf[source] IN
            LET test == parse(parts[1]).body[1].value
                stmts == [i \in 1..Len(parts[2]) |-> parse(parts[2][i]).body[1]]
                node == program[1].body[1]
            IN  /\ program[1].ok
                /\ Len(program[1].body) = 1
                /\ node.s = "If"
                /\ node.test = test
                /\ node.consequent.s = "Block"
                /\ transform(stmts) = transform(node.consequent.body)
                /\ node.alternate = <<>>
                /\ code[TRUE] # <<>> =>
                       code[TRUE][1] =
                           [ok |-> TRUE,
                            code |-> "if(" \o TextOf(node.test, TRUE) \o "){"
                                     \o StatementsText(node.consequent.body,
                                                       Len(node.consequent.body))
                                     \o "}"]

\* C7 witness: the if statement over three lines with let pi = 3.14; in its
\* block has been parsed, passed through the transformer and generated
\* minified as if(!0){var pi=3.14;}
C7_Witness ==
    /\ source = "if(true) {\n      let pi = 3.14;\n    }\n"
    /\ program # <<>>
    /\ program[1].ok
    /\ program[1].body[1].consequent.body[1].kind = "Var"
    /\ code[TRUE] = <<[ok |-> TRUE, code |-> "if(!0){var pi=3.14;}"]>>


(***************************************************************************)
(* Claims about the Parser's methods, on the stepped Parser.               *)
(***************************************************************************)
StatementMethods ==
    {"expression_statement", "return_statement", "variable_declaration_statement"}

\* what the $eval of the step's statement! gave, for a step of a statement method
StepEval ==
    IF step.method = "variable_declaration_statement"
    THEN variable_declaration_loop(tokens, step.p, <<>>)
    ELSE expression(tokens, step.p, 0)

\* the lookahead after that $eval
StepEvalLookahead == lookahead(tokens, StepEval.p)

\* that lookahead is a token other than Semicolon, ParenOff and BlockOff
StepEvalOtherToken ==
    /\ StepEvalLookahead.v # <<>>
    /\ StepEvalLookahead.v[1].t \notin {"Semicolon", "ParenOff", "BlockOff"}

SkippedLineTermination(p) == p.pos > 1 /\ tokens[p.pos - 1].t = "LineTermination"

\* C16: wherever the parser inspects its lookahead, allow_asi is true if and only if at
\* least one LineTermination was skipped since the most recently consumed token (or
\* since the start of input); consuming a token resets it to false, and the token
\* returned by lookahead or consume is never LineTermination.
C16_AllowAsi ==
    /\ Alive => (parser.allow_asi <=> SkippedLineTermination(parser))
    /\ step.method = "lookahead" =>
           /\ step.r.p.allow_asi <=> SkippedLineTermination(step.r.p)
           /\ step.r.v # <<>> => step.r.v[1].t # "LineTermination"
    /\ (step.method = "consume" /\ step.r.ok) =>
           /\ ~step.r.p.allow_asi
           /\ step.r.v.t # "LineTermination"

\* a token consumed, not the first of the stream, in a state where allow_asi was true
C16_Witness ==
    /\ step.method = "consume"
    /\ step.r.ok
    /\ step.p.allow_asi
    /\ step.p.pos > 2

\* for a step of expression: the consumption of the first token and the lookahead after
StepFirst == consume(tokens, step.p)
StepFirstLookahead == lookahead(tokens, StepFirst.p)

\* that lookahead is ParenOn, BracketOn, Operator(/), Operator(+) or Operator(-)
StepFirstLookaheadGated ==
    /\ StepFirstLookahead.v # <<>>
    /\ \/ StepFirstLookahead.v[1].t \in {"ParenOn", "BracketOn"}
       \/ /\ StepFirstLookahead.v[1].t = "Operator"
          /\ StepFirstLookahead.v[1].v \in {"Division", "Addition", "Substraction"}

\* the step applied expression to an Identifier followed, after a line break, by one
\* of those tokens
StepGatedAfterIdentifier ==
    /\ step.method = "expression"
    /\ StepFirst.ok
    /\ StepFirst.v.t = "Identifier"
    /\ StepFirstLookaheadGated
    /\ StepFirstLookahead.p.allow_asi

Call(callee, arguments) == [e |-> "Call", callee |-> callee, arguments |-> arguments]

\* C17: in the left-denotation loop, when allow_asi is true and the lookahead is ParenOn,
\* BracketOn, Operator(/), Operator(+) or Operator(-), the loop ends without consuming
\* that token and the expression parsed so far is returned; so `a`, a line break and
\* `(b)` give the expression statement a and not a Call, while the same tokens without
\* the line break give one Call.
C17_LineBreakEndsExpression ==
    /\ StepGatedAfterIdentifier =>
           step.r = Ok(StepFirstLookahead.p, Ident(StepFirst.v.v))
    /\ (step.method = "statement" /\ step.p = Parser_new /\ source = "a\n(b)") =>
           /\ step.r.ok
           /\ step.r.v = <<ExprStmt(Ident("a"))>>
           /\ tokens[step.r.p.pos].t = "ParenOn"
    /\ (step.method = "statement" /\ step.p = Parser_new /\ source = "a(b)") =>
           /\ step.r.ok
           /\ step.r.v = <<ExprStmt(Call(Ident("a"), <<Ident("b")>>))>>

\* expression was applied to `a`, a line break, `(b)` and returned a
C17_Witness ==
    /\ StepGatedAfterIdentifier
    /\ StepFirstLookahead.v[1].t = "ParenOn"
    /\ step.r.ok

\* the methods that return only after consuming a token
ConsumingMethods ==
    StatementMethods \cup {"consume", "expression", "block_body"}

RECURSIVE StatementStarts(_, _)
\* the Parser states in which the loop of parse calls statement() and is given a
\* statement, from state p on
StatementStarts(toks, p) ==
    With([st \in {statement(toks, p)} |->
        IF ~st.ok \/ st.v = <<>> THEN <<>>
        ELSE <<p>> \o StatementStarts(toks, st.p)])

\* parse of the stream gave a Program whose statements are, in order, the ones found
\* at the states of starts, each further in the stream than the one before
BodyInSourceOrder(toks, starts) ==
    /\ parse_tokens(toks).ok
    /\ Len(parse_tokens(toks).body) = Len(starts)
    /\ \A i \in 1..Len(starts) :
           /\ parse_tokens(toks).body[i] = statement(toks, starts[i]).v[1]
           /\ i > 1 => starts[i].pos > starts[i - 1].pos

\* C28: parse terminates on every finite token stream, returning a Program or aborting:
\* every iteration of a loop consumes at least one token or exits the loop (a method
\* that parses an item returns further in the stream than it started, never beyond the
\* end, and statement() returns None only when the stream is exhausted), and the
\* statements of Program.body appear in source order.
C28_ProgressAndOrder ==
    /\ parser.pos <= Len(tokens) + 1
    /\ (step.r.ok /\ step.method \in ConsumingMethods) => step.r.p.pos > step.p.pos
    /\ (step.r.ok /\ step.method = "statement") =>
           IF step.r.v = <<>>
           THEN lookahead(tokens, step.r.p).v = <<>>
           ELSE step.r.p.pos > step.p.pos
    /\ (step.method = "statement" /\ step.p = Parser_new /\ parse_tokens(tokens).ok) =>
           BodyInSourceOrder(tokens, StatementStarts(tokens, Parser_new))

\* the first statement of a stream of at least two statements has been parsed
C28_Witness ==
    /\ step.method = "statement"
    /\ step.p = Parser_new
    /\ parse_tokens(tokens).ok
    /\ Len(parse_tokens(tokens).body) >= 2

(***************************************************************************)
(* Claims about parse, on the sources.                                     *)
(***************************************************************************)
\* sources where, inside a delimited list, an item is followed by a token that is
\* neither Comma nor the closing delimiter
JunkListSources ==
    {"[a b]", "f(a b)", "f(a; b)", "x = function(a b) {}", "x = {a b}", "function f(a b) {}"}

\* C12: inside a delimited list (array elements, call arguments, function parameters,
\* object members) a token that follows an item and is neither Comma nor the closing
\* delimiter aborts the parse: it is never silently dropped.
C12_ListJunkAborts ==
    (source \in JunkListSources /\ program # <<>>) => ~program[1].ok

\* parse accepted the source as the one expression statement of x
ParsedAs(x) == program[1] = [ok |-> TRUE, body |-> <<ExprStmt(x)>>]

\* C13: a call or computed-member suffix that follows the right operand of a binary
\* operator attaches to that operand: `a + b(c)` parses to Binary{a, +, Call{b, [c]}}
\* and `a + b[c]` to Binary{a, +, ComputedMember{b, c}}, never to a Call or
\* ComputedMember of the Binary.
C13_SuffixAttachesToOperand ==
    /\ (source = "a + b(c)" /\ program # <<>>) =>
           ParsedAs(Bin(Ident("a"), "Addition",
                        [e |-> "Call", callee |-> Ident("b"),
                         arguments |-> <<Ident("c")>>]))
    /\ (source = "a + b[c]" /\ program # <<>>) =>
           ParsedAs(Bin(Ident("a"), "Addition",
                        [e |-> "ComputedMember", object |-> Ident("b"),
                         property |-> Ident("c")]))

\* the source of two consecutive binary operators
ChainSource(o1, o2) ==
    "a " \o OperatorType_bytes(o1) \o " b " \o OperatorType_bytes(o2) \o " c"

LeftAssociativeOperators == { op \in ChainOperators : ~assignment(op) /\ op # "Exponent" }

\* C14: for two consecutive non-assignment binary operators of equal binding power
\* (`a - b - c`, `a / b * c`) the parser builds the left-nested tree
\* Binary{Binary{a, op1, b}, op2, c}.
C14_EqualPowerNestsLeft ==
    \A o1 \in LeftAssociativeOperators, o2 \in LeftAssociativeOperators :
        (/\ binding_power(o1) = binding_power(o2)
         /\ source = ChainSource(o1, o2)
         /\ program # <<>>) =>
            ParsedAs(Bin(Bin(Ident("a"), o1, Ident("b")), o2, Ident("c")))

AssignmentOperators == { op \in ChainOperators : assignment(op) }

Cond(t, c, a) == [e |-> "Conditional", test |-> t, consequent |-> c, alternate |-> a]

\* C15: assignment operators and the ternary are parsed right-associatively:
\* `a = b = c` yields Binary{a, =, Binary{b, =, c}} and `a ? b : c ? d : e` yields
\* Conditional{a, b, Conditional{c, d, e}}.
C15_AssignmentAndTernaryNestRight ==
    /\ \A o1 \in AssignmentOperators, o2 \in AssignmentOperators :
           (source = ChainSource(o1, o2) /\ program # <<>>) =>
               ParsedAs(Bin(Ident("a"), o1, Bin(Ident("b"), o2, Ident("c"))))
    /\ (source = "a ? b : c ? d : e" /\ program # <<>>) =>
           ParsedAs(Cond(Ident("a"), Ident("b"),
                         Cond(Ident("c"), Ident("d"), Ident("e"))))

\* `a = b = c` has been parsed
C15_Witness ==
    /\ source = "a = b = c"
    /\ program # <<>>
    /\ ParsedAs(Bin(Ident("a"), "Assign", Bin(Ident("b"), "Assign", Ident("c"))))

\* C18: a Return token whose next token, line breaks apart, is a statement boundary
\* (Semicolon, BlockOff or the end of the stream) parses to Return{value: None}
\* without aborting.
C18_ReturnWithoutValue ==
    /\ (source \in {"return;", "return"} /\ program # <<>>) =>
           program[1] = [ok |-> TRUE, body |-> <<[s |-> "Return", value |-> <<>>]>>]
    /\ (source = "function f(a) { return; }" /\ program # <<>>) => program[1].ok

\* C19: wherever a statement is expected, at top level and inside a block body alike,
\* a Semicolon is consumed and the dispatcher retries: a run of extra Semicolons before
\* the next statement, before the closing BlockOff or before the end of the stream
\* produces no statement and does not abort the parse.
C19_ExtraSemicolonsSkipped ==
    /\ (source = ";" /\ program # <<>>) => program[1] = [ok |-> TRUE, body |-> <<>>]
    /\ (source \in {";;a", "a;;"} /\ program # <<>>) => ParsedAs(Ident("a"))
    /\ (source = "a;\n;\nb;" /\ program # <<>>) =>
           program[1] = [ok |-> TRUE,
                         body |-> <<ExprStmt(Ident("a")), ExprStmt(Ident("b"))>>]
    /\ (source = "function f(a) { ; a;; }" /\ program # <<>>) =>
           program[1] = [ok |-> TRUE,
                         body |-> <<[s |-> "Function", name |-> "f",
                                     params |-> <<Param("a")>>,
                                     body |-> <<ExprStmt(Ident("a"))>>]>>]

\* the parameters the arrow function of a source is to have
ArrowParameters(text) ==
    CASE text \in {"a => b", "(a) => b"} -> <<Param("a")>>
      [] text = "(a, b) => c" -> <<Param("a"), Param("b")>>
      [] text = "(a, b, c) => d" -> <<Param("a"), Param("b"), Param("c")>>
      [] text \in {"() => a", "() => { a; }", "() => {}"} -> <<>>

ArrowAcceptedSources ==
    {"a => b", "(a) => b", "(a, b) => c", "(a, b, c) => d", "() => a", "() => { a; }",
     "() => {}"}

\* a Sequence with a non-Identifier element, or another variant, before =>
ArrowRejectedSources ==
    {"(a, 1) => c", "(a + b) => c", "1 => a", "a.b => c", "this => a", "a(b) => c"}

\* C20: when => follows a left-hand expression, the parameters are one Parameter for
\* an Identifier, one Parameter per element in order for a Sequence of Identifiers,
\* and the empty list for (); a Sequence with a non-Identifier element, or any other
\* left-hand expression variant, aborts the parse.
C20_ArrowParameters ==
    /\ (source \in ArrowAcceptedSources /\ program # <<>>) =>
           /\ IsExpressionProgram("ArrowFunction")
           /\ TheExpression.params = ArrowParameters(source)
    /\ (source \in ArrowRejectedSources /\ program # <<>>) => ~program[1].ok

\* (a, b) => c has been parsed to an arrow function of two parameters
C20_Witness ==
    /\ source = "(a, b) => c"
    /\ IsExpressionProgram("ArrowFunction")
    /\ Len(TheExpression.params) = 2

SequenceOf(items) == [e |-> "Sequence", items |-> items]

\* C21: after a leading ParenOn, an immediate ParenOff must be followed by => and yields
\* a zero-parameter ArrowFunction (anything else aborts); a single sub-expression
\* followed by ParenOff yields that sub-expression itself with no Sequence wrapper; two
\* or more Comma-separated sub-expressions yield a Sequence of the elements in source
\* order, of length at least 2.
C21_Parenthesized ==
    /\ (source \in {"()", "() a"} /\ program # <<>>) => ~program[1].ok
    /\ (source = "() => a" /\ program # <<>>) =>
           ParsedAs([e |-> "ArrowFunction", params |-> <<>>,
                     body |-> ExprStmt(Ident("a"))])
    /\ (source \in {"(a)", "((a))"} /\ program # <<>>) => ParsedAs(Ident("a"))
    /\ (source = "(a, b)" /\ program # <<>>) => ParsedAs(SequenceOf(<<Ident("a"), Ident("b")>>))
    /\ (source = "(a, b, c)" /\ program # <<>>) =>
           ParsedAs(SequenceOf(<<Ident("a"), Ident("b"), Ident("c")>>))
    /\ (source = "x = (a, b)" /\ program # <<>>) =>
           ParsedAs(Bin(Ident("x"), "Assign", SequenceOf(<<Ident("a"), Ident("b")>>)))
    /\ IsExpressionProgram("Sequence") => Len(TheExpression.items) >= 2

\* (a, b, c) has been parsed to a Sequence
C21_Witness ==
    /\ source = "(a, b, c)"
    /\ IsExpressionProgram("Sequence")

\* sources where a declarator name is not followed by =
NoInitializerSources == {"var a", "var a;", "const a", "var a, b = 1", "var a = 1, b;"}

\* C22: every VariableDeclaration in an AST returned by parse has a non-empty
\* declarators list in source order and every declarator has an initializer: a
\* declarator name not followed by = aborts the parse.
C22_DeclaratorsInitialized ==
    /\ (program # <<>> /\ program[1].ok) =>
           \A i \in 1..Len(program[1].body) :
               program[1].body[i].s = "VariableDeclaration" =>
                   /\ Len(program[1].body[i].declarators) >= 1
                   /\ \A j \in 1..Len(program[1].body[i].declarators) :
                          Len(program[1].body[i].declarators[j].value) = 1
    /\ (IsDeclarationProgram /\ source \in DeclarationSources
        /\ program[1].body[1].declarators[1].name = DeclaratorName(1)) =>
           \A j \in 1..Len(program[1].body[1].declarators) :
               program[1].body[1].declarators[j].name = DeclaratorName(j)
    /\ (source \in NoInitializerSources /\ program # <<>>) => ~program[1].ok

\* a declaration of MaxDeclarators declarators has been parsed
C22_Witness ==
    /\ IsDeclarationProgram
    /\ Len(program[1].body[1].declarators) = MaxDeclarators
    /\ program[1].body[1].declarators[MaxDeclarators].name = DeclaratorName(MaxDeclarators)

RECURSIVE FirstIndexOf(_, _, _)
\* the index of the first token of toks from i on that matches pat, 0 if there is none
FirstIndexOf(toks, pat, i) ==
    IF i > Len(toks) THEN 0
    ELSE IF Matches(toks[i], pat) THEN i
    ELSE FirstIndexOf(toks, pat, i + 1)

RECURSIVE NextTokenFrom(_, _)
\* Option of the first token of toks from i on that is no LineTermination
NextTokenFrom(toks, i) ==
    IF i > Len(toks) THEN <<>>
    ELSE IF toks[i].t = "LineTermination" THEN NextTokenFrom(toks, i + 1)
    ELSE <<toks[i]>>

\* the first => of the source is followed, line breaks apart, by BlockOn
BlockOnAfterArrow(text) ==
    LET toks == Tokenizer(text).toks
        arrow == FirstIndexOf(toks, OperatorTok("FatArrow"), 1)
    IN  /\ arrow > 0
        /\ NextTokenFrom(toks, arrow + 1) # <<>>
        /\ NextTokenFrom(toks, arrow + 1)[1].t = "BlockOn"

\* C23: every ArrowFunction in an AST returned by parse has a body that is either an
\* Expression statement or a Block statement: a Block exactly when the token after =>
\* is BlockOn, an Expression statement holding expression(0) otherwise.
C23_ArrowBody ==
    IsExpressionProgram("ArrowFunction") =>
        /\ TheExpression.body.s \in {"Expression", "Block"}
        /\ TheExpression.body.s = "Block" <=> BlockOnAfterArrow(source)

\* an arrow function with a block body has been parsed
C23_Witness ==
    /\ IsExpressionProgram("ArrowFunction")
    /\ TheExpression.body.s = "Block"
    /\ Len(TheExpression.body.body) > 0

\* C24: the terminator check is applied only after statements that require a semicolon:
\* after an if or while statement, including one whose body is a braced block, the
\* next statement may start on the same line with no Semicolon and no LineTermination
\* and the parse does not abort.
C24_NoTerminatorAfterIfWhile ==
    (source \in {"if (a) {} b", "while (a) {} b"} /\ program # <<>>) =>
        /\ program[1].ok
        /\ Len(program[1].body) = 2
        /\ program[1].body[1].s \in {"If", "While"}
        /\ program[1].body[2] = ExprStmt(Ident("b"))

(***************************************************************************)
(* Claims about the bytes generate_code writes.                            *)
(***************************************************************************)
WordBytes == "abcdefghijklmnopqrstuvwxyzABCDEFGHIJKLMNOPQRSTUVWXYZ0123456789_$"

\* the bytes that go into identifiers, keywords and numbers
WordByteSet == { SubSeq(WordBytes, i, i) : i \in 1..Len(WordBytes) }

\* byte i of text is a space between two bytes that would otherwise merge into a token
SpaceIsNeeded(text, i) ==
    /\ i > 1
    /\ i < Len(text)
    /\ SubSeq(text, i - 1, i - 1) \in WordByteSet
    /\ SubSeq(text, i + 1, i + 1) \in WordByteSet

\* C25: in minify mode the generator emits no unnecessary whitespace: every space byte
\* of the output stands between two bytes that would otherwise merge into one token,
\* and no newline byte is emitted.
C25_MinifiedWhitespace ==
    (code[TRUE] # <<>> /\ code[TRUE][1].ok) =>
        \A i \in 1..Len(code[TRUE][1].code) :
            /\ SubSeq(code[TRUE][1].code, i, i) # "\n"
            /\ SubSeq(code[TRUE][1].code, i, i) = " " => SpaceIsNeeded(code[TRUE][1].code, i)

\* C26: whenever the generator emits a word operator (typeof, void, delete, new as
\* Prefix; in, instanceof as Binary) next to an operand whose adjacent byte is an
\* identifier or digit character, at least one space separates the operator from the
\* operand, in pretty mode and in minify mode.
C26_WordOperatorsSpaced ==
    \A m \in BOOLEAN :
        (program # <<>> /\ program[1].ok /\ code[m] # <<>> /\ code[m][1].ok) =>
            /\ \A op \in {"Typeof", "Void", "Delete", "New"} :
                   (IsExpressionProgram("Prefix") /\ TheExpression = Pre(op, Ident("a"))) =>
                       StartsWith(code[m][1].code, OperatorType_bytes(op) \o " a")
            /\ \A op \in {"In", "Instanceof"} :
                   (/\ IsExpressionProgram("Binary")
                    /\ TheExpression = Bin(Ident("a"), op, Ident("b"))) =>
                       StartsWith(code[m][1].code,
                                  "a " \o OperatorType_bytes(op) \o " b")

\* the indent levels a node is emitted at
MaxDent == 2

\* a Generator of the mode at indent level d
GeneratorAt(minify, d) == [Generator_new(minify) EXCEPT !.dent = d]

\* C27: the generator's indent level is balanced: emitting any statement, expression,
\* object literal or block leaves the level equal to its value before the node was
\* emitted, the level is never decremented below 0 (a level below 0 wraps around and
\* the new_line that follows every dedent would write it out), and it is 0 when
\* generate_code returns.
C27_IndentBalanced ==
    \A m \in BOOLEAN :
        (program # <<>> /\ program[1].ok /\ code[m] # <<>> /\ code[m][1].ok) =>
            /\ \A d \in 0..MaxDent :
                   /\ \A i \in 1..Len(program[1].body) :
                          Statement_to_code(program[1].body[i], GeneratorAt(m, d)).dent = d
                   /\ program[1].body[1].s = "Expression" =>
                          Expression_to_code(program[1].body[1].value,
                                             GeneratorAt(m, d)).dent = d
            /\ generate_code_from(Generator_new(m), program[1].body, 1).dent = 0
            /\ Len(code[m][1].code) < DentModulus

\* an object literal with members has been generated in pretty mode
C27_Witness ==
    /\ IsExpressionProgram("Object")
    /\ Len(TheExpression.members) > 0
    /\ code[FALSE] # <<>>
    /\ code[FALSE][1].ok

====
